---- MODULE Spec2Model ----
(***************************************************************************)
(* State-machine model of the zip-revelio ingest and analysis engine:      *)
(* the byte-budgeted buffer pool (src/src/buffer.rs), the tiered buffer    *)
(* pool and worker pool (src/src/buffer/pool.rs, src/src/worker/*.rs), the *)
(* decode step (src/src/zip/entry.rs, src/src/processor.rs), the           *)
(* statistics collector (src/src/stats.rs), the archive readers            *)
(* (src/src/reader.rs, src/src/zip/reader.rs, src/src/zip.rs), the run     *)
(* loop of src/src/main.rs, the thread pool (src/src/thread_pool.rs), the  *)
(* report emitters (src/src/report/*.rs, src/src/reporter.rs), the error   *)
(* stores (src/src/stats.rs, src/src/error_handling.rs, src/src/sync.rs),  *)
(* the report writers (src/src/writer/report.rs), the scheduler            *)
(* (src/src/scheduler.rs), SafeQueue (src/src/thread_safety.rs), the       *)
(* chunk processor and analyzer (src/src/analyzer/chunks.rs, zip.rs), the  *)
(* permits of SharedState (src/src/sync.rs) and WorkerPool::new            *)
(* (src/src/worker/pool.rs).                                               *)
(*                                                                         *)
(* Each subsystem has its own specification (SpecBudget, SpecTier, ...);   *)
(* the variables of the other subsystems stay at their initial values.     *)
(***************************************************************************)
EXTENDS Integers, Sequences, FiniteSets, TLC

(***************************************************************************)
(* Bounds of the model.                                                    *)
(***************************************************************************)
NumThreads == 2
MaxReq == 2
PoolMaxSize == 3
SmallSize == 2
MediumSize == 4
SmallCount == 2
MediumCount == 1
MaxLeases == 2
MaxLarge == 2
MaxEntries == 2
NumWorkers == 2
ProcMaxMemory == 4
MaxRecords == 2
MaxComment == 2
MaxChunks == 3
ThreadCount == 2
MaxTasks == 3
MaxReportEntries == 2
MaxContexts == 2
MaxErrorCalls == 3
MaxConcurrent == 2
MaxSchedTasks == 3
SafeQueueCapacity == 2
MaxPushes == 3
MaxBufferCount == 2
MaxChunkCallers == 2
MaxChunkCalls == 3
MaxPermits == 3
MaxPermitCallers == 2
MaxPermitCalls == 5
MaxThreadCount == 20
MaxCpus == 20
MaxFileSize == 8
MaxElapsedSecs == 3

Threads == 1..NumThreads

VARIABLES
    \* byte-budgeted BufferPool (src/src/buffer.rs)
    buffers,      \* aligned size -> number of free buffers in the DashMap
    total_size,   \* AtomicUsize: bytes accounted as allocated
    gb_pc,        \* thread -> position inside get_buffer
    gb_local,     \* thread -> locals of get_buffer (aligned_size, current_size)
    gb_held,      \* aligned size -> buffers handed out and not yet returned
    gb_result,    \* thread -> result of the thread's last get_buffer
    \* tiered BufferPool (src/src/buffer/pool.rs)
    small_pool,   \* ArrayQueue of free small buffers, each [len, cap]
    medium_pool,  \* ArrayQueue of free medium buffers
    large_maps,   \* ids of the memory maps the pool tracks
    next_map_id,  \* AtomicUsize
    \* callers of the tiered pool
    leases,       \* the Buffer values callers hold, in acquisition order
    acq_result,   \* result of the last acquire
    \* WorkerPool::process_entries (src/src/worker/pool.rs)
    wp_state,     \* "idle", "running", "done"
    wp_entries,   \* the entries argument, as catalog ids
    wp_claimed,   \* indices a worker has started on
    wp_task,      \* worker -> the Task it holds, or NoTask
    wp_outcome,   \* index -> result of the closure for that entry
    wp_abort,     \* an Err left the closure: try_for_each stops
    wp_ret,       \* what process_entries returned
    \* Processor::process_entries (src/src/processor.rs)
    pr_state,     \* "idle", "running", "done", "panicked"
    pr_entries,   \* the entries argument, as catalog ids (data: their bytes)
    pr_rx_alive,  \* the receiver of task_tx still exists
    pr_batch,     \* batch_size
    pr_first,     \* index of the first entry of the current batch
    pr_claimed,   \* indices a worker has started on
    pr_worker,    \* worker -> [idx, pc] inside process_entry, or idle
    pr_results,   \* index -> result of process_entry
    pr_ret,       \* what process_entries returned
    \* Stats (src/src/stats.rs)
    stats_files,  \* total_files
    stats_size,   \* total_size
    stats_csize,  \* compressed_size
    stats_methods,\* methods: method code -> count
    stats_dist,   \* size_distribution: range -> count
    stats_errors, \* errors
    \* ZipReader::read_entries (src/src/reader.rs)
    rd_pc,        \* "idle", "find", "offset", "entries", "send", "done"
    rd_file,      \* the bytes of the file
    rd_input,     \* what the file was written with: [nrec, declared]
    rd_cursor,    \* the File's cursor, an offset from the start
    rd_position,  \* self.position
    rd_entries,   \* the entries pushed so far
    rd_tx_alive,  \* the receiver of task_tx still exists
    rd_ret,       \* what read_entries returned
    \* FileZipReader::read_directory (src/src/zip.rs)
    dir_state,    \* "idle", "done"
    dir_len,      \* archive.len()
    dir_entries,  \* the indices kept in Directory.entries
    dir_ret,      \* what read_directory returned
    \* memory-mapped ZipReader and its entries() iterator (src/src/zip/reader.rs)
    mm_pc,        \* "idle", "open", "done"
    mm_map,       \* the bytes of the memory map
    mm_offset,    \* ZipEntryIterator.current_offset
    mm_items,     \* the entries the iterator has yielded
    mm_ret,       \* result of ZipReader::new, then of the iteration
    \* ZipReader::read_entry_data (src/src/reader.rs)
    ed_entry,     \* the entry argument
    ed_ret,       \* what read_entry_data returned
    ed_data,      \* the bytes of the buffer it returned
    \* main and process_zip (src/src/main.rs)
    pz_pc,        \* "idle", "next", "check", "process", "done"
    pz_remaining, \* chunks the stream has yet to yield
    pz_results,   \* chunks merged into the ZipAnalysis
    pz_running,   \* the AtomicBool `running`; the Ctrl-C handler clears it
    pz_work_at_cancel, \* work remained when the handler cleared the flag
    pz_ret,       \* what process_zip returned
    \* ThreadPool (src/src/thread_pool.rs)
    tp_running,   \* RwLock<bool>
    tp_chan,      \* the bounded channel: messages sent and not yet received
    tp_worker,    \* worker thread -> [pc, task]
    tp_states,    \* DashMap states: worker -> ThreadState, or "absent"
    tp_started,   \* ids of the tasks workers have received, in order
    tp_metrics,   \* global_metrics: [completed, failed]
    tp_thread_metrics, \* DashMap metrics: worker -> its ThreadMetrics, if present
    tp_results,   \* task id -> "pending", or what task() returned: "Ok", "Err"
    tp_owner,     \* the owning thread: "alive", "sending", "joining", "dropped"
    tp_sent,      \* Shutdown messages sent by the shutdown call in progress
    tp_in_drop,   \* the shutdown call in progress was made by drop
    tp_joined,    \* handles drop has joined
    tp_next_id,   \* id of the next task passed to execute
    tp_exec_ret,  \* what the last execute or shutdown returned
    \* report Stats and the report emitters (src/src/report/*.rs, src/src/reporter.rs)
    rs_pc,        \* run -> "idle", "new", "running", "done"
    rs_input,     \* the entries of the archive both runs analyse
    rs_seed,      \* run -> the iteration order the run's hasher gives the method keys
    rs_pending,   \* run -> entries no worker has recorded yet
    rs_stats,     \* run -> the fields of Stats
    rs_report,    \* run -> the report the run emitted
    \* ErrorHandler (src/src/error_handling.rs) and SharedState's error channel (src/src/sync.rs)
    eh_pc,        \* "idle", "ready", "panicked"
    eh_max,       \* max_contexts
    eh_contexts,  \* contexts, as the numbers of the handle calls that pushed them
    eh_calls,     \* handle calls made
    ss_chan,      \* errors in SharedState's channel, sent and not yet collected
    \* the writers of the report file (src/src/main.rs, src/src/reporter.rs,
    \* src/src/writer/report.rs)
    aw_pc,        \* "idle", "create", "write", "sync", "rename", "done"
    aw_kind,      \* the writer called: "atomic_write", "write_report", "write"
    aw_path,      \* the path argument, OUTPUT, as [stem, ext]
    aw_old,       \* what OUTPUT held before the call
    aw_fs,        \* the directory: path -> content of the file, or "absent"
    aw_ret,       \* what the writer returned
    \* Scheduler (src/src/scheduler.rs)
    sc_pc,        \* "none", "idle" (constructed), "select" (inside run)
    sc_max,       \* config.max_concurrent
    sc_clock,     \* Instant::now()
    sc_tasks,     \* the ScheduledTasks made so far, by id: [priority, created_at, deadline]
    sc_queue,     \* ids in the BinaryHeap
    sc_running,   \* ids in the FuturesUnordered
    sc_order,     \* ids in the order they were moved to the running set
    sc_chan,      \* results in the completion channel
    \* SafeQueue (src/src/thread_safety.rs)
    sq_items,     \* inner, the Vec of queued items
    sq_permits,   \* permits of the semaphore
    sq_pushed,    \* items push has accepted so far
    sq_popped,    \* items in the order try_pop returned them
    sq_ret,       \* what the last push returned
    \* chunk processor (src/src/analyzer/chunks.rs)
    ck_count,     \* config.buffer_count, 0 before ChunkProcessor::new
    ck_permits,   \* available permits of the semaphore buffer_pool.buffers
    ck_pc,        \* caller -> position inside process_chunk
    ck_chunk,     \* caller -> the chunk argument: its length, whether it is a ZIP archive
    ck_ret,       \* caller -> what its last process_chunk returned
    ck_calls,     \* number of process_chunk calls started
    ck_stats,     \* ChunkStats: active_threads, processed_chunks, total_bytes
    \* SharedState's permits (src/src/sync.rs)
    sp_max,       \* max_concurrent of SharedState::new, 0 before it
    sp_permits,   \* available permits of SharedState.semaphore
    sp_pc,        \* caller -> position inside acquire_permit
    sp_acquired,  \* acquire_permit calls that have returned Ok
    sp_released,  \* release_permit calls
    \* WorkerPool::new (src/src/worker/pool.rs)
    wn_request,   \* config.thread_count: [some, n]
    wn_cpus,      \* num_cpus::get()
    wn_threads,   \* threads of the pool WorkerPool::new built, 0 before it
    \* ParallelZipAnalyzer::analyze (src/src/analyzer/zip.rs)
    an_pc,        \* "idle", "loop", "read", "process", "progress", "merge", "done"
    an_file_size, \* file_size
    an_offset,    \* current_offset
    an_bytes_read, \* bytes_read of the chunk in hand
    an_chunks,    \* chunk_results.len()
    an_estimate,  \* estimated_remaining_secs of the last update
    an_ret,       \* what analyze returned, "none" while it runs
    \* FileZipReader::validate_size (src/src/zip.rs)
    sz_len,       \* metadata.len(), a u64 as [hi, lo]
    sz_ret        \* what validate_size returned: [kind, size]

prVars == <<pr_state, pr_entries, pr_rx_alive, pr_batch, pr_first, pr_claimed, pr_worker,
           pr_results, pr_ret>>
statsVars == <<stats_files, stats_size, stats_csize, stats_methods, stats_dist, stats_errors>>
wpVars == <<wp_state, wp_entries, wp_claimed, wp_task, wp_outcome, wp_abort, wp_ret>>
rdVars == <<rd_pc, rd_file, rd_input, rd_cursor, rd_position, rd_entries, rd_tx_alive,
           rd_ret, dir_state, dir_len, dir_entries, dir_ret>>
mmVars == <<mm_pc, mm_map, mm_offset, mm_items, mm_ret>>
sizeVars == <<sz_len, sz_ret>>
edVars == <<ed_entry, ed_ret, ed_data>>
runVars == <<pz_pc, pz_remaining, pz_results, pz_running, pz_work_at_cancel, pz_ret>>
tpVars == <<tp_running, tp_chan, tp_worker, tp_states, tp_started, tp_metrics, tp_owner,
           tp_sent, tp_in_drop, tp_joined, tp_next_id, tp_exec_ret, tp_thread_metrics,
           tp_results>>
repVars == <<rs_pc, rs_input, rs_seed, rs_pending, rs_stats, rs_report>>
errVars == <<eh_pc, eh_max, eh_contexts, eh_calls, ss_chan>>
awVars == <<aw_pc, aw_kind, aw_path, aw_old, aw_fs, aw_ret>>
schVars == <<sc_pc, sc_max, sc_clock, sc_tasks, sc_queue, sc_running, sc_order, sc_chan>>
sqVars == <<sq_items, sq_permits, sq_pushed, sq_popped, sq_ret>>
ckVars == <<ck_count, ck_permits, ck_pc, ck_chunk, ck_ret, ck_calls, ck_stats>>
permVars == <<sp_max, sp_permits, sp_pc, sp_acquired, sp_released>>
wnVars == <<wn_request, wn_cpus, wn_threads>>
anVars == <<an_pc, an_file_size, an_offset,
            an_bytes_read, an_chunks, an_estimate, an_ret>>
notBudget == <<small_pool, medium_pool, large_maps, next_map_id, leases, acq_result,
               wpVars, prVars, statsVars, rdVars, mmVars, sizeVars, edVars, runVars,
               tpVars, repVars, errVars, awVars, schVars, sqVars, ckVars, permVars, wnVars, anVars>>
budgetVars == <<buffers, total_size, gb_pc, gb_local, gb_held, gb_result>>
poolVars == <<small_pool, medium_pool, large_maps, next_map_id>>
callerVars == <<leases, acq_result>>

vars == <<budgetVars, poolVars, callerVars, wpVars, prVars, statsVars, rdVars, mmVars,
         sizeVars, edVars, runVars, tpVars, repVars, errVars, awVars, schVars, sqVars,
         ckVars, permVars, wnVars, anVars>>

\* usize::next_power_of_two for the sizes of the model (0 and 1 both give 1)
RECURSIVE NextPow2From(_, _)
NextPow2From(p, n) == IF p >= n THEN p ELSE NextPow2From(2 * p, n)

next_power_of_two(n) == NextPow2From(1, n)

AlignedSizes == {next_power_of_two(n) : n \in 1..MaxReq}

(***************************************************************************)
(* Bytes, CRC-32 and inflate.  A u32 checksum is kept as its four          *)
(* little-endian bytes, the form it has in the archive.                    *)
(***************************************************************************)
RECURSIVE ByteBits(_, _)
\* the k low bits of n, least significant first
ByteBits(n, k) == IF k = 0 THEN <<>> ELSE <<n % 2>> \o ByteBits(n \div 2, k - 1)

RECURSIVE BitsValue(_)
BitsValue(bs) == IF bs = <<>> THEN 0 ELSE Head(bs) + 2 * BitsValue(Tail(bs))

Xor(a, b) == (a + b) % 2

\* reflected CRC-32 polynomial 0xEDB88320, bit i of the register at index i + 1
CrcPolyBits == {5, 8, 9, 15, 19, 20, 21, 23, 24, 26, 27, 29, 30, 31}

\* one shift of the register: reg = (reg >> 1) ^ (reg & 1 ? poly : 0)
CrcShift(reg) ==
    SubSeq([i \in 1..32 |->
               LET shifted == IF i = 32 THEN 0 ELSE reg[i + 1]
                   poly == IF (i - 1) \in CrcPolyBits THEN reg[1] ELSE 0
               IN Xor(shifted, poly)], 1, 32)

RECURSIVE CrcShifts(_, _)
\* k shifts; each intermediate register is bound to its value before it is used
CrcShifts(reg, k) ==
    IF k = 0 THEN reg
    ELSE CHOOSE out \in {CrcShifts(next, k - 1) : next \in {CrcShift(reg)}} : TRUE

\* absorb one byte: xor it into the low 8 bits, then 8 shifts
CrcByte(reg, b) ==
    CHOOSE out \in
        {CrcShifts(mixed, 8) :
            mixed \in {SubSeq([i \in 1..32 |->
                                  IF i <= 8 THEN Xor(reg[i], ByteBits(b, 8)[i]) ELSE reg[i]],
                              1, 32)}} : TRUE

RECURSIVE CrcUpdate(_, _)
CrcUpdate(reg, data) ==
    IF data = <<>> THEN reg
    ELSE CHOOSE out \in {CrcUpdate(next, Tail(data)) :
                            next \in {CrcByte(reg, Head(data))}} : TRUE

\* crc32fast::Hasher over data: register starts all ones, result is inverted;
\* the checksum as its four bytes, least significant first
Crc32(data) ==
    CHOOSE crc \in
        {<<BitsValue(SubSeq(out, 1, 8)), BitsValue(SubSeq(out, 9, 16)),
           BitsValue(SubSeq(out, 17, 24)), BitsValue(SubSeq(out, 25, 32))>> :
            out \in {SubSeq([i \in 1..32 |-> 1 - reg[i]], 1, 32) :
                        reg \in {CrcUpdate(init, data) :
                                    init \in {SubSeq([i \in 1..32 |-> 1], 1, 32)}}}} : TRUE

\* flate2 DeflateDecoder + read_to_end on RFC 1951 streams made of one
\* block.  Stored blocks (BTYPE 00) carry LEN, NLEN and LEN literal bytes;
\* BTYPE 11 is reserved and is a decode error.  Huffman-coded blocks
\* (BTYPE 01, 10) are not among the model's inputs.
Inflate(data) ==
    IF data = <<>> THEN [ok |-> TRUE, out |-> <<>>]
    ELSE LET btype == (Head(data) \div 2) % 4 IN
         IF btype # 0 \/ Len(data) < 5 THEN [ok |-> FALSE, out |-> <<>>]
         ELSE LET len == data[2] + 256 * data[3]
                  nlen == data[4] + 256 * data[5]
              IN IF len + nlen # 65535 \/ Len(data) < 5 + len
                 THEN [ok |-> FALSE, out |-> <<>>]
                 ELSE [ok |-> TRUE, out |-> SubSeq(data, 6, 5 + len)]

(***************************************************************************)
(* Archive entries of the model.  An entry carries the fields of           *)
(* LocalFileHeader and the bytes of file_data (src/src/zip/entry.rs,       *)
(* lines 8-26); name and data are byte sequences.                          *)
(***************************************************************************)
Rep(n) == SubSeq([i \in 1..n |-> 72], 1, n)

\* a complete RFC 1951 stream holding data in one stored block
StoredBlock(data) ==
    <<1, Len(data) % 256, Len(data) \div 256,
      255 - (Len(data) % 256), 255 - (Len(data) \div 256)>> \o data

MkEntry(name, method, data, claimed_size, crc) ==
    [name |-> name, method |-> method, file_data |-> data,
     compressed_size |-> Len(data), uncompressed_size |-> claimed_size, crc32 |-> crc]

Catalog ==
    <<  \* Store, consistent
        MkEntry(<<97>>, 0, Rep(1), 1, Crc32(Rep(1))),
        \* Store, claimed CRC wrong
        MkEntry(<<98>>, 0, Rep(1), 1, <<0, 0, 0, 0>>),
        \* Store, claimed size 1 but 2 bytes of data, CRC of the data
        MkEntry(<<99>>, 0, Rep(2), 1, Crc32(Rep(2))),
        \* Deflate, consistent
        MkEntry(<<100>>, 8, StoredBlock(Rep(1)), 1, Crc32(Rep(1))),
        \* Deflate, reserved block type: the stream does not decode
        MkEntry(<<101>>, 8, <<7>>, 1, Crc32(Rep(1))),
        \* Deflate, claimed size 1 but 2 bytes decoded, CRC of the decoded bytes
        MkEntry(<<102>>, 8, StoredBlock(Rep(2)), 1, Crc32(Rep(2))),
        \* method 12 (bzip2)
        MkEntry(<<103>>, 12, Rep(1), 1, Crc32(Rep(1))),
        \* name with a non-ASCII byte
        MkEntry(<<200>>, 0, Rep(1), 1, Crc32(Rep(1))),
        \* Store, consistent, medium tier
        MkEntry(<<104>>, 0, Rep(SmallSize + 1), SmallSize + 1, Crc32(Rep(SmallSize + 1))),
        \* Store, consistent, large tier
        MkEntry(<<105>>, 0, Rep(MediumSize + 1), MediumSize + 1, Crc32(Rep(MediumSize + 1))),
        \* Store, consistent, exactly one small buffer of data
        MkEntry(<<106>>, 0, Rep(SmallSize), SmallSize, <<1, 1, 1, 1>>),
        \* Store, the empty file
        MkEntry(<<107>>, 0, <<>>, 0, <<0, 0, 0, 0>>) >>

EntryIds == 1..Len(Catalog)

\* str::is_ascii
IsAscii(name) == \A i \in 1..Len(name) : name[i] < 128

\* uncompressed_size > 0xFFFFFFFF, written without a number above 2^31
FileTooLarge(size) == size \div 65536 > 65535

\* ZipEntry::validate, lines 88-104
EntryValidate(e) ==
    IF ~IsAscii(e.name) THEN "NonAsciiName"
    ELSE IF FileTooLarge(e.uncompressed_size) THEN "FileTooLarge"
    ELSE IF e.method \in {0, 8} THEN "Ok"
    ELSE "UnsupportedMethod"

\* ZipEntry::process with the comparison of the CRC left out
ZipEntryProcess_NoCrcCheck(e) ==
    IF EntryValidate(e) # "Ok"
    THEN [status |-> EntryValidate(e), copied |-> FALSE, out |-> <<>>, crc |-> <<>>]
    ELSE IF e.method = 0
    THEN [status |-> "Ok", copied |-> TRUE, out |-> e.file_data, crc |-> Crc32(e.file_data)]
    ELSE IF ~Inflate(e.file_data).ok
    THEN [status |-> "Io", copied |-> FALSE, out |-> <<>>, crc |-> <<>>]
    ELSE [status |-> "Ok", copied |-> TRUE, out |-> Inflate(e.file_data).out,
          crc |-> Crc32(Inflate(e.file_data).out)]

\* ZipEntry::process, lines 36-86: the result, whether the buffer was written
\* (copy_from_slice) and with which bytes, and the CRC computed
ZipEntryProcess(e) ==
    LET v == EntryValidate(e)
        none == [copied |-> FALSE, out |-> <<>>, crc |-> <<>>]
    IN IF v # "Ok" THEN [status |-> v] @@ none
       ELSE IF e.method = 0
       THEN LET crc == Crc32(e.file_data) IN
            [status |-> IF crc # e.crc32 THEN "Crc32Mismatch" ELSE "Ok",
             copied |-> TRUE, out |-> e.file_data, crc |-> crc]
       ELSE LET d == Inflate(e.file_data) IN
            IF ~d.ok THEN [status |-> "Io"] @@ none
            ELSE LET crc == Crc32(d.out) IN
                 [status |-> IF crc # e.crc32 THEN "Crc32Mismatch" ELSE "Ok",
                  copied |-> TRUE, out |-> d.out, crc |-> crc]

\* Processor::process_entry, lines 101-150, after the statistics updates:
\* entry is a crate::ZipEntry (method Store or Deflate), data its bytes
ProcessEntryVerify(e) ==
    IF e.method = 0
    THEN IF Len(e.file_data) # e.uncompressed_size
         THEN [status |-> "SizeMismatch", out |-> e.file_data, crc |-> <<>>]
         ELSE LET crc == Crc32(e.file_data) IN
              [status |-> IF crc # e.crc32 THEN "CrcMismatch" ELSE "Ok",
               out |-> e.file_data, crc |-> crc]
    ELSE LET d == Inflate(e.file_data) IN
         IF ~d.ok THEN [status |-> "DecompressionFailed", out |-> <<>>, crc |-> <<>>]
         ELSE IF Len(d.out) # e.uncompressed_size
         THEN [status |-> "SizeMismatch", out |-> d.out, crc |-> <<>>]
         ELSE LET crc == Crc32(d.out) IN
              [status |-> IF crc # e.crc32 THEN "CrcMismatch" ELSE "Ok",
               out |-> d.out, crc |-> crc]

(***************************************************************************)
(* src/src/buffer.rs: BufferPool                                           *)
(***************************************************************************)
BudgetInit ==
    /\ buffers = [a \in AlignedSizes |-> 0]
    /\ total_size = 0
    /\ gb_pc = [t \in Threads |-> "idle"]
    /\ gb_local = [t \in Threads |-> [aligned_size |-> 0, current_size |-> 0]]
    /\ gb_held = [a \in AlignedSizes |-> 0]
    /\ gb_result = [t \in Threads |-> "none"]

\* get_buffer, lines 31-44: round up, try the free list, else load total_size
GetBufferBegin(t, size) ==
    /\ gb_pc[t] = "idle"
    /\ UNCHANGED notBudget
    /\ LET aligned_size == next_power_of_two(size) IN
       IF buffers[aligned_size] > 0
       THEN /\ buffers' = [buffers EXCEPT ![aligned_size] = @ - 1]
            /\ gb_held' = [gb_held EXCEPT ![aligned_size] = @ + 1]
            /\ gb_result' = [gb_result EXCEPT ![t] = "ok"]
            /\ UNCHANGED <<total_size, gb_pc, gb_local>>
       ELSE /\ gb_local' = [gb_local EXCEPT ![t] =
                   [aligned_size |-> aligned_size, current_size |-> total_size]]
            /\ gb_pc' = [gb_pc EXCEPT ![t] = "loaded"]
            /\ UNCHANGED <<buffers, total_size, gb_held, gb_result>>

\* the limit test of get_buffer, line 45
OverLimit(current_size, aligned_size, max_size) ==
    current_size + aligned_size > max_size

\* get_buffer, lines 45-54: test the limit on the loaded value, then fetch_add
GetBufferEnd(t) ==
    /\ gb_pc[t] = "loaded"
    /\ UNCHANGED notBudget
    /\ gb_pc' = [gb_pc EXCEPT ![t] = "idle"]
    /\ LET l == gb_local[t] IN
       IF OverLimit(l.current_size, l.aligned_size, PoolMaxSize)
       THEN /\ gb_result' = [gb_result EXCEPT ![t] = "err_memory"]
            /\ UNCHANGED <<total_size, gb_held>>
       ELSE /\ total_size' = total_size + l.aligned_size
            /\ gb_held' = [gb_held EXCEPT ![l.aligned_size] = @ + 1]
            /\ gb_result' = [gb_result EXCEPT ![t] = "ok"]
    /\ gb_local' = [gb_local EXCEPT ![t] = [aligned_size |-> 0, current_size |-> 0]]
    /\ UNCHANGED buffers

\* return_buffer, lines 58-67 (also PooledBuffer::drop, lines 111-117)
ReturnBuffer(t, cap) ==
    /\ gb_pc[t] = "idle"
    /\ gb_held[cap] > 0
    /\ UNCHANGED notBudget
    /\ gb_held' = [gb_held EXCEPT ![cap] = @ - 1]
    /\ buffers' = [buffers EXCEPT ![cap] = @ + 1]
    /\ UNCHANGED <<total_size, gb_pc, gb_local, gb_result>>

BudgetNext ==
    \/ \E t \in Threads, size \in 1..MaxReq : GetBufferBegin(t, size)
    \/ \E t \in Threads : GetBufferEnd(t)
    \/ \E t \in Threads, cap \in AlignedSizes : ReturnBuffer(t, cap)

(***************************************************************************)
(* src/src/buffer/pool.rs: tiered BufferPool                               *)
(***************************************************************************)
Max(a, b) == IF a >= b THEN a ELSE b

\* BufferPool::new, lines 132-161: the queues are filled with vec![0; size]
PoolInit ==
    /\ small_pool = [i \in 1..SmallCount |-> [len |-> SmallSize, cap |-> SmallSize]]
    /\ medium_pool = [i \in 1..MediumCount |-> [len |-> MediumSize, cap |-> MediumSize]]
    /\ large_maps = {}
    /\ next_map_id = 0

\* acquire, lines 163-187, as a function of the pool: the result and the pool after
AcquireOp(sp, mp, lm, nid, size) ==
    IF size <= SmallSize
    THEN IF sp = <<>>
         THEN [res |-> "NoBufferAvailable", sp |-> sp, mp |-> mp, lm |-> lm, nid |-> nid]
         ELSE [res |-> "Small", buf |-> Head(sp),
               sp |-> Tail(sp), mp |-> mp, lm |-> lm, nid |-> nid]
    ELSE IF size <= MediumSize
    THEN IF mp = <<>>
         THEN [res |-> "NoBufferAvailable", sp |-> sp, mp |-> mp, lm |-> lm, nid |-> nid]
         ELSE [res |-> "Medium", buf |-> Head(mp),
               sp |-> sp, mp |-> Tail(mp), lm |-> lm, nid |-> nid]
    ELSE [res |-> "Large", buf |-> [id |-> nid],
          sp |-> sp, mp |-> mp, lm |-> lm \cup {nid}, nid |-> nid + 1]

\* ArrayQueue::push: appends unless the queue is full, then the value is dropped
QueuePush(q, capacity, v) == IF Len(q) < capacity THEN Append(q, v) ELSE q

\* release, lines 189-207: a buffer of the tier's capacity puts a new, cleared
\* vector on the tier's queue
ReleaseSmall(sp, buf) ==
    IF buf.cap = SmallSize
    THEN QueuePush(sp, SmallCount, [len |-> 0, cap |-> SmallSize])
    ELSE sp

ReleaseMedium(mp, buf) ==
    IF buf.cap = MediumSize
    THEN QueuePush(mp, MediumCount, [len |-> 0, cap |-> MediumSize])
    ELSE mp

\* Vec::extend_from_slice after clear(): the capacity grows when n exceeds it
\* (amortised growth of RawVec, at least 8 bytes)
GrowCap(cap, n) == IF n <= cap THEN cap ELSE Max(8, Max(2 * cap, n))

\* Buffer::copy_from_slice, lines 35-43
CopyFromSlice(buf, n) == [len |-> n, cap |-> GrowCap(buf.cap, n)]

(***************************************************************************)
(* Callers of the tiered pool: acquire, release(&buffer), drop(buffer).    *)
(***************************************************************************)
CallerInit ==
    /\ leases = <<>>
    /\ acq_result = "none"

CallerAcquire(size) ==
    /\ Len(leases) < MaxLeases
    /\ size > MediumSize => next_map_id < MaxLarge
    /\ UNCHANGED <<budgetVars, rdVars, wpVars, prVars, statsVars, anVars, wnVars, permVars,
                   ckVars, sqVars, schVars, awVars, errVars, repVars, tpVars, runVars,
                   edVars, sizeVars, mmVars>>
    /\ LET r == AcquireOp(small_pool, medium_pool, large_maps, next_map_id, size) IN
       /\ acq_result' = r.res
       /\ small_pool' = r.sp
       /\ medium_pool' = r.mp
       /\ large_maps' = r.lm
       /\ next_map_id' = r.nid
       /\ leases' = IF r.res = "NoBufferAvailable" THEN leases
                    ELSE Append(leases, [kind |-> r.res, buf |-> r.buf, releases |-> 0])

\* release takes the buffer by reference: the caller still holds it afterwards
CallerRelease(i) ==
    /\ i \in 1..Len(leases)
    /\ leases[i].releases < 2
    /\ LET l == leases[i] IN
       /\ small_pool' = IF l.kind = "Small" THEN ReleaseSmall(small_pool, l.buf)
                        ELSE small_pool
       /\ medium_pool' = IF l.kind = "Medium" THEN ReleaseMedium(medium_pool, l.buf)
                         ELSE medium_pool
       /\ leases' = [leases EXCEPT ![i].releases = @ + 1]
    /\ UNCHANGED <<large_maps, next_map_id, acq_result, budgetVars, rdVars, wpVars, prVars,
                   statsVars, anVars, wnVars, permVars, ckVars, sqVars, schVars, awVars,
                   errVars, repVars, tpVars, runVars, edVars, sizeVars, mmVars>>

\* the caller fills its buffer (Buffer::copy_from_slice)
CallerWrite(i, n) ==
    /\ i \in 1..Len(leases)
    /\ leases[i].kind \in {"Small", "Medium"}
    /\ leases[i].releases = 0
    /\ leases' = [leases EXCEPT ![i].buf = CopyFromSlice(@, n)]
    /\ UNCHANGED <<poolVars, acq_result, budgetVars, rdVars, wpVars, prVars, statsVars,
                   anVars, wnVars, permVars, ckVars, sqVars, schVars, awVars, errVars,
                   repVars, tpVars, runVars, edVars, sizeVars, mmVars>>

RemoveAt(seq, i) == SubSeq(seq, 1, i - 1) \o SubSeq(seq, i + 1, Len(seq))

\* Drop for Buffer, lines 72-87: Small and Medium put nothing back; Large
\* removes its id from the thread-local pool, which BufferPool::new set to a
\* clone (lines 156-158, 217-227) whose map is not the issuing pool's map
CallerDrop(i) ==
    /\ i \in 1..Len(leases)
    /\ leases' = RemoveAt(leases, i)
    /\ UNCHANGED <<poolVars, acq_result, budgetVars, rdVars, wpVars, prVars, statsVars,
                   anVars, wnVars, permVars, ckVars, sqVars, schVars, awVars, errVars,
                   repVars, tpVars, runVars, edVars, sizeVars, mmVars>>

\* BUFFER_POOL, the thread-local pool of lines 15-17: BufferPool::new stores
\* Arc::new(pool.clone()) in it (lines 156-158), and Clone for BufferPool
\* (lines 217-227) builds new queues and a new, empty large_maps. acquire
\* inserts into the issuing pool's map only, Drop for Buffer only removes:
\* the thread-local map holds no id at any time.
ThreadLocalLargeMaps == {}

\* Buffer::validate_memory, lines 46-69, for the buffer of a lease: Small and
\* Medium are refused with capacity 0, Large is looked up in the thread-local
\* pool's map
validate_memory(l) ==
    IF l.kind \in {"Small", "Medium"}
    THEN IF l.buf.cap = 0 THEN "Err_Memory" ELSE "Ok"
    ELSE IF l.buf.id \in ThreadLocalLargeMaps THEN "Ok" ELSE "Err_Memory"

TierNext ==
    \/ \E size \in 0..(MediumSize + 1) : CallerAcquire(size)
    \/ \E i \in 1..MaxLeases : CallerRelease(i)
    \/ \E i \in 1..MaxLeases, n \in {1, SmallSize + 1} : CallerWrite(i, n)
    \/ \E i \in 1..MaxLeases : CallerDrop(i)

(***************************************************************************)
(* src/src/worker/pool.rs and src/src/worker/task.rs: WorkerPool           *)
(***************************************************************************)
Workers == 1..NumWorkers
NoTask == [idx |-> 0]

RECURSIVE SeqsUpTo(_, _)
\* the sequences over S of length at most n
SeqsUpTo(S, n) ==
    IF n = 0 THEN {<<>>}
    ELSE LET shorter == SeqsUpTo(S, n - 1) IN
         shorter \cup {Append(q, x) : q \in shorter, x \in S}

\* the entry lists handed to a run: distinct catalog entries, in catalog order
EntryLists(S) ==
    {q \in SeqsUpTo(S, MaxEntries) : \A i \in 1..(Len(q) - 1) : q[i] < q[i + 1]}

\* ZipEntry::process on every catalog entry
Processed == SubSeq([id \in EntryIds |-> ZipEntryProcess(Catalog[id])], 1, Len(Catalog))

WpInit ==
    /\ wp_state = "idle"
    /\ wp_entries = <<>>
    /\ wp_claimed = {}
    /\ wp_task = [w \in Workers |-> NoTask]
    /\ wp_outcome = <<>>
    /\ wp_abort = FALSE
    /\ wp_ret = "none"

\* process_entries is called with a list of entries, lines 68-75
WpStart(es) ==
    /\ wp_state = "idle"
    /\ pr_state = "idle"
    /\ wp_state' = "running"
    /\ wp_entries' = es
    /\ wp_outcome' = [i \in 1..Len(es) |-> "pending"]
    /\ UNCHANGED <<wp_claimed, wp_task, wp_abort, wp_ret>>
    /\ UNCHANGED <<budgetVars, rdVars, poolVars, callerVars, prVars, statsVars, anVars,
                   wnVars, permVars, ckVars, sqVars, schVars, awVars, errVars, repVars,
                   tpVars, runVars, edVars, sizeVars, mmVars>>

\* the closure of try_for_each, lines 80-86: acquire a buffer, build the Task
WpAcquire(w, i) ==
    /\ wp_state = "running"
    /\ ~wp_abort
    /\ wp_task[w] = NoTask
    /\ i \in 1..Len(wp_entries)
    /\ i \notin wp_claimed
    /\ wp_claimed' = wp_claimed \cup {i}
    /\ LET r == AcquireOp(small_pool, medium_pool, large_maps, next_map_id,
                          Catalog[wp_entries[i]].uncompressed_size) IN
       /\ small_pool' = r.sp
       /\ medium_pool' = r.mp
       /\ large_maps' = r.lm
       /\ next_map_id' = r.nid
       /\ IF r.res = "NoBufferAvailable"
          THEN /\ wp_abort' = TRUE
               /\ wp_outcome' = [wp_outcome EXCEPT ![i] = "AcquireFailed"]
               /\ UNCHANGED wp_task
          ELSE /\ wp_task' = [wp_task EXCEPT ![w] =
                      [idx |-> i, kind |-> r.res, buf |-> r.buf]]
               /\ UNCHANGED <<wp_abort, wp_outcome>>
    /\ UNCHANGED <<wp_state, wp_entries, wp_ret>>
    /\ UNCHANGED <<budgetVars, rdVars, callerVars, prVars, statsVars, anVars, wnVars,
                   permVars, ckVars, sqVars, schVars, awVars, errVars, repVars, tpVars,
                   runVars, edVars, sizeVars, mmVars>>

\* Task::validate, lines 40-45, with Buffer::validate_memory (pool.rs, lines
\* 46-69): a Large buffer is looked up in the thread-local pool, which is unset
\* on a worker thread and otherwise a clone with an empty map
TaskValidate(task) ==
    IF task.kind = "Large" THEN "Memory"
    ELSE IF task.buf.cap = 0 THEN "Memory"
    ELSE "Ok"

\* Task::process, lines 47-56: the status and the buffer afterwards
TaskProcess(task, id) ==
    IF TaskValidate(task) # "Ok"
    THEN [status |-> TaskValidate(task), buf |-> task.buf]
    ELSE [status |-> Processed[id].status,
          buf |-> IF Processed[id].copied
                  THEN CopyFromSlice(task.buf, Len(Processed[id].out))
                  ELSE task.buf]

\* Vec::clone allocates exactly the length
BufClone(buf) == [len |-> buf.len, cap |-> buf.len]

\* Drop for Task, lines 59-78: a Small or Medium buffer is released only if
\* the task was not processed, and what is released is a clone of it
TaskDropSmall(sp, kind, buf, processed) ==
    IF kind = "Small" /\ ~processed THEN ReleaseSmall(sp, BufClone(buf)) ELSE sp

TaskDropMedium(mp, kind, buf, processed) ==
    IF kind = "Medium" /\ ~processed THEN ReleaseMedium(mp, BufClone(buf)) ELSE mp

\* the closure of try_for_each, lines 87-101, and the drop of the Task at its end
WpProcess(w) ==
    /\ wp_state = "running"
    /\ wp_task[w] # NoTask
    /\ LET task == wp_task[w]
           r == TaskProcess(task, wp_entries[task.idx])
           processed == r.status = "Ok"
       IN /\ wp_outcome' = [wp_outcome EXCEPT ![task.idx] = r.status]
          /\ small_pool' = TaskDropSmall(small_pool, task.kind, r.buf, processed)
          /\ medium_pool' = TaskDropMedium(medium_pool, task.kind, r.buf, processed)
          /\ large_maps' = IF task.kind = "Large" THEN large_maps \ {task.buf.id}
                           ELSE large_maps
    /\ wp_task' = [wp_task EXCEPT ![w] = NoTask]
    /\ UNCHANGED <<next_map_id, wp_state, wp_entries, wp_claimed, wp_abort, wp_ret>>
    /\ UNCHANGED <<budgetVars, rdVars, callerVars, prVars, statsVars, anVars, wnVars,
                   permVars, ckVars, sqVars, schVars, awVars, errVars, repVars, tpVars,
                   runVars, edVars, sizeVars, mmVars>>

\* what process_entries returns, lines 103-120
WpReturn(abort, outcome) ==
    IF abort THEN "Err_Memory"
    ELSE IF \E i \in 1..Len(outcome) : outcome[i] # "Ok" THEN "Err_Format"
    ELSE "Ok"

\* install() returns once every started closure has ended
WpFinish ==
    /\ wp_state = "running"
    /\ \A w \in Workers : wp_task[w] = NoTask
    /\ wp_abort \/ wp_claimed = 1..Len(wp_entries)
    /\ wp_state' = "done"
    /\ wp_ret' = WpReturn(wp_abort, wp_outcome)
    /\ UNCHANGED <<wp_entries, wp_claimed, wp_task, wp_outcome, wp_abort>>
    /\ UNCHANGED <<budgetVars, rdVars, poolVars, callerVars, prVars, statsVars, anVars,
                   wnVars, permVars, ckVars, sqVars, schVars, awVars, errVars, repVars,
                   tpVars, runVars, edVars, sizeVars, mmVars>>

PoolRunNext ==
    \/ wp_state = "idle" /\ pr_state = "idle" /\ \E es \in EntryLists(EntryIds) : WpStart(es)
    \/ \E w \in Workers, i \in 1..MaxEntries : WpAcquire(w, i)
    \/ \E w \in Workers : WpProcess(w)
    \/ WpFinish

(***************************************************************************)
(* src/src/stats.rs: Stats, and src/src/processor.rs: Processor            *)
(***************************************************************************)
SizeRanges == {"Tiny", "Small", "Medium", "Large", "VeryLarge", "Huge"}

\* SizeRange::from_size, lines 52-61
from_size(size) ==
    IF size <= 1024 THEN "Tiny"
    ELSE IF size <= 10240 THEN "Small"
    ELSE IF size <= 102400 THEN "Medium"
    ELSE IF size <= 1048576 THEN "Large"
    ELSE IF size <= 10485760 THEN "VeryLarge"
    ELSE "Huge"

\* Stats::new, lines 78-92
StatsInit ==
    /\ stats_files = 0
    /\ stats_size = 0
    /\ stats_csize = 0
    /\ stats_methods = [m \in {0, 8} |-> 0]
    /\ stats_dist = [r \in SizeRanges |-> 0]
    /\ stats_errors = <<>>

\* a store of the operand in place of the atomic add
FetchAdd_Store(cur, n) == n

\* AtomicUsize / AtomicU64 fetch_add (the sums of the model stay far below 2^64)
FetchAdd(cur, n) == cur + n

Idle == [idx |-> 0, pc |-> "idle"]

PrInit ==
    /\ pr_state = "idle"
    /\ pr_entries = <<>>
    /\ pr_rx_alive = TRUE
    /\ pr_batch = 0
    /\ pr_first = 1
    /\ pr_claimed = {}
    /\ pr_worker = [w \in Workers |-> Idle]
    /\ pr_results = <<>>
    /\ pr_ret = "none"

RECURSIVE SumCompressed(_)
SumCompressed(es) ==
    IF es = <<>> THEN 0
    ELSE Catalog[Head(es)].compressed_size + SumCompressed(Tail(es))

\* calculate_batch_size, lines 154-172; the division by avg_size panics when
\* avg_size is 0
CalcBatchSize(es, thread_count) ==
    IF es = <<>> THEN [panic |-> FALSE, size |-> 0]
    ELSE LET avg_size == SumCompressed(es) \div Len(es)
             memory_per_thread == ProcMaxMemory \div thread_count
         IN IF avg_size = 0 THEN [panic |-> TRUE, size |-> 0]
            ELSE [panic |-> FALSE, size |-> Max(memory_per_thread \div avg_size, 1)]

\* entries of crate::ZipEntry have method Store or Deflate
ProcEntryIds == {id \in EntryIds : Catalog[id].method \in {0, 8}}

\* process_entries, lines 50-64: the length test, the batch size, and
\* chunks(batch_size), which panics for a batch size of 0
PrStart(es, ndata, rx_alive) ==
    /\ pr_state = "idle"
    /\ wp_state = "idle"
    /\ pr_entries' = es
    /\ pr_rx_alive' = rx_alive
    /\ pr_results' = [i \in 1..Len(es) |-> "pending"]
    /\ LET b == CalcBatchSize(es, NumWorkers) IN
       IF Len(es) # ndata
       THEN /\ pr_state' = "done"
            /\ pr_ret' = "Err_Processing"
            /\ UNCHANGED pr_batch
       ELSE IF b.panic \/ b.size = 0
       THEN /\ pr_state' = "panicked"
            /\ UNCHANGED <<pr_batch, pr_ret>>
       ELSE /\ pr_state' = "running"
            /\ pr_batch' = b.size
            /\ UNCHANGED pr_ret
    /\ UNCHANGED <<pr_first, pr_claimed, pr_worker>>
    /\ UNCHANGED <<budgetVars, rdVars, poolVars, callerVars, wpVars, statsVars, anVars,
                   wnVars, permVars, ckVars, sqVars, schVars, awVars, errVars, repVars,
                   tpVars, runVars, edVars, sizeVars, mmVars>>

BatchIndices == {i \in 1..Len(pr_entries) : pr_first <= i /\ i < pr_first + pr_batch}

\* Processor::process_entry's verification on every catalog entry
Verified == SubSeq([id \in EntryIds |-> ProcessEntryVerify(Catalog[id])], 1, Len(Catalog))

\* a worker of the batch's par_iter starts process_entry on an entry
PrTake(w, i) ==
    /\ pr_state = "running"
    /\ pr_worker[w] = Idle
    /\ i \in BatchIndices \ pr_claimed
    /\ pr_claimed' = pr_claimed \cup {i}
    /\ pr_worker' = [pr_worker EXCEPT ![w] = [idx |-> i, pc |-> "files"]]
    /\ UNCHANGED <<pr_state, pr_entries, pr_rx_alive, pr_batch, pr_first, pr_results,
                   pr_ret>>
    /\ UNCHANGED <<budgetVars, rdVars, poolVars, callerVars, wpVars, statsVars, anVars,
                   wnVars, permVars, ckVars, sqVars, schVars, awVars, errVars, repVars,
                   tpVars, runVars, edVars, sizeVars, mmVars>>

\* process_entry, line 96: increment_files (stats.rs, lines 95-97)
PrIncrementFiles(w) ==
    /\ pr_worker[w].pc = "files"
    /\ stats_files' = FetchAdd(stats_files, 1)
    /\ pr_worker' = [pr_worker EXCEPT ![w].pc = "size"]
    /\ UNCHANGED <<stats_size, stats_csize, stats_methods, stats_dist, stats_errors>>
    /\ UNCHANGED <<pr_state, pr_entries, pr_rx_alive, pr_batch, pr_first, pr_claimed,
                   pr_results, pr_ret>>
    /\ UNCHANGED <<budgetVars, anVars, wnVars, permVars, ckVars, sqVars, schVars, awVars,
                   errVars, repVars, tpVars, runVars, edVars, sizeVars, mmVars, rdVars,
                   poolVars, callerVars, wpVars>>

\* process_entry, line 97: add_size (stats.rs, lines 100-116; the processing
\* rate it also stores depends on the wall clock and is left out)
PrAddSize(w) ==
    /\ pr_worker[w].pc = "size"
    /\ LET size == Catalog[pr_entries[pr_worker[w].idx]].uncompressed_size IN
       /\ stats_size' = FetchAdd(stats_size, size)
       /\ stats_dist' = [stats_dist EXCEPT ![from_size(size)] = @ + 1]
    /\ pr_worker' = [pr_worker EXCEPT ![w].pc = "csize"]
    /\ UNCHANGED <<stats_files, stats_csize, stats_methods, stats_errors>>
    /\ UNCHANGED <<pr_state, pr_entries, pr_rx_alive, pr_batch, pr_first, pr_claimed,
                   pr_results, pr_ret>>
    /\ UNCHANGED <<budgetVars, anVars, wnVars, permVars, ckVars, sqVars, schVars, awVars,
                   errVars, repVars, tpVars, runVars, edVars, sizeVars, mmVars, rdVars,
                   poolVars, callerVars, wpVars>>

\* process_entry, line 98: add_compressed_size (stats.rs, lines 119-121)
PrAddCompressed(w) ==
    /\ pr_worker[w].pc = "csize"
    /\ stats_csize' = FetchAdd(stats_csize,
                               Catalog[pr_entries[pr_worker[w].idx]].compressed_size)
    /\ pr_worker' = [pr_worker EXCEPT ![w].pc = "method"]
    /\ UNCHANGED <<stats_files, stats_size, stats_methods, stats_dist, stats_errors>>
    /\ UNCHANGED <<pr_state, pr_entries, pr_rx_alive, pr_batch, pr_first, pr_claimed,
                   pr_results, pr_ret>>
    /\ UNCHANGED <<budgetVars, anVars, wnVars, permVars, ckVars, sqVars, schVars, awVars,
                   errVars, repVars, tpVars, runVars, edVars, sizeVars, mmVars, rdVars,
                   poolVars, callerVars, wpVars>>

\* process_entry, lines 99-150: record_method (stats.rs, lines 124-128), then
\* the verification of the entry's bytes
PrRecordAndVerify(w) ==
    /\ pr_worker[w].pc = "method"
    /\ LET i == pr_worker[w].idx
           e == Catalog[pr_entries[i]]
       IN /\ stats_methods' = [stats_methods EXCEPT ![e.method] = @ + 1]
          /\ pr_results' = [pr_results EXCEPT ![i] = Verified[pr_entries[i]].status]
    /\ pr_worker' = [pr_worker EXCEPT ![w] = Idle]
    /\ UNCHANGED <<stats_files, stats_size, stats_csize, stats_dist, stats_errors>>
    /\ UNCHANGED <<pr_state, pr_entries, pr_rx_alive, pr_batch, pr_first, pr_claimed,
                   pr_ret>>
    /\ UNCHANGED <<budgetVars, anVars, wnVars, permVars, ckVars, sqVars, schVars, awVars,
                   errVars, repVars, tpVars, runVars, edVars, sizeVars, mmVars, rdVars,
                   poolVars, callerVars, wpVars>>

RECURSIVE BatchErrors(_, _, _)
\* the Err results of the batch, in entry order (lines 76-80)
BatchErrors(results, from, to) ==
    IF from > to THEN <<>>
    ELSE (IF results[from] # "Ok" THEN <<results[from]>> ELSE <<>>)
         \o BatchErrors(results, from + 1, to)

\* process_entries, lines 75-90: the batch is collected, its errors are
\* recorded, progress is sent (an Err if the receiver is gone), and the loop
\* goes on to the next batch or returns Ok
PrBatchEnd ==
    /\ pr_state = "running"
    /\ \A i \in BatchIndices : pr_results[i] # "pending"
    /\ LET to == IF pr_first + pr_batch - 1 < Len(pr_entries)
                 THEN pr_first + pr_batch - 1 ELSE Len(pr_entries)
       IN /\ stats_errors' = stats_errors \o BatchErrors(pr_results, pr_first, to)
          /\ IF ~pr_rx_alive
             THEN /\ pr_state' = "done"
                  /\ pr_ret' = "Err_TaskChannel"
                  /\ UNCHANGED pr_first
             ELSE /\ pr_first' = to + 1
                  /\ pr_state' = IF to >= Len(pr_entries) THEN "done" ELSE "running"
                  /\ pr_ret' = IF to >= Len(pr_entries) THEN "Ok" ELSE pr_ret
    /\ UNCHANGED <<stats_files, stats_size, stats_csize, stats_methods, stats_dist>>
    /\ UNCHANGED <<pr_entries, pr_rx_alive, pr_batch, pr_claimed, pr_worker, pr_results>>
    /\ UNCHANGED <<budgetVars, anVars, wnVars, permVars, ckVars, sqVars, schVars, awVars,
                   errVars, repVars, tpVars, runVars, edVars, sizeVars, mmVars, rdVars,
                   poolVars, callerVars, wpVars>>

ProcessorNext ==
    \/ pr_state = "idle" /\ wp_state = "idle" /\ \E es \in EntryLists(ProcEntryIds),
                                  extra \in {0, 1}, rx_alive \in BOOLEAN :
                                   PrStart(es, Len(es) + extra, rx_alive)
    \/ \E w \in Workers, i \in 1..MaxEntries : PrTake(w, i)
    \/ \E w \in Workers : PrIncrementFiles(w)
    \/ \E w \in Workers : PrAddSize(w)
    \/ \E w \in Workers : PrAddCompressed(w)
    \/ \E w \in Workers : PrRecordAndVerify(w)
    \/ PrBatchEnd

(***************************************************************************)
(* src/src/reader.rs: ZipReader over a File, and src/src/zip.rs:           *)
(* FileZipReader::read_directory.  A file is its sequence of bytes; the    *)
(* cursor and self.position are offsets from the start of the file.        *)
(***************************************************************************)
\* u16::to_le_bytes and u32::to_le_bytes
LE16(n) == <<n % 256, n \div 256>>
LE32(n) == <<n % 256, (n \div 256) % 256, (n \div 65536) % 256, n \div 16777216>>

RECURSIVE from_le_bytes(_)
\* u16::from_le_bytes and u32::from_le_bytes
from_le_bytes(bs) == IF bs = <<>> THEN 0 ELSE Head(bs) + 256 * from_le_bytes(Tail(bs))

Zeros(n) == SubSeq([i \in 1..n |-> 0], 1, n)

\* 0x06054b50 and 0x02014b50 as to_le_bytes gives them (zip/reader.rs, lines 10-11)
END_OF_CENTRAL_DIR_SIGNATURE == <<80, 75, 5, 6>>
CENTRAL_DIR_ENTRY_SIGNATURE == <<80, 75, 1, 2>>

\* the longest archive comment; the loop bound of find_end_of_central_directory
MAX_COMMENT_LENGTH == 65535

\* a central directory record as an archiver writes it: 46 bytes, then the name
CdRecord(method, name, crc, csize, usize) ==
    CENTRAL_DIR_ENTRY_SIGNATURE \o LE16(20) \o LE16(20) \o LE16(0) \o LE16(method)
        \o Zeros(4) \o crc \o LE32(csize) \o LE32(usize)
        \o LE16(Len(name)) \o LE16(0) \o LE16(0) \o Zeros(8) \o LE32(0) \o name

\* an end of central directory record: 22 bytes, then the comment
EocdRecord(total, cd_size, cd_offset, comment) ==
    END_OF_CENTRAL_DIR_SIGNATURE \o Zeros(4) \o LE16(total) \o LE16(total)
        \o LE32(cd_size) \o LE32(cd_offset) \o LE16(Len(comment)) \o comment

RECURSIVE CdRecords(_)
\* the records of the first n catalog entries, one after the other
CdRecords(n) ==
    IF n = 0 THEN <<>>
    ELSE CdRecords(n - 1)
         \o CdRecord(Catalog[n].method, Catalog[n].name, Catalog[n].crc32,
                     Catalog[n].compressed_size, Catalog[n].uncompressed_size)

\* an archive with nrec central directory records, an EOCD declaring
\* `declared` entries, and a comment of clen bytes; lead bytes stand for the
\* local headers and file data before the central directory
ArchiveFile(nrec, declared, clen) ==
    LET lead == Zeros(3)
        cd == CdRecords(nrec)
    IN lead \o cd \o EocdRecord(declared, Len(cd), Len(lead), Rep(clen))

\* the file test_zip_reader writes (reader.rs, lines 221-247)
TestName == <<116, 101, 115, 116, 46, 116, 120, 116>>
TestZipFile ==
    <<80, 75, 3, 4>> \o Zeros(26) \o TestName \o Rep(13)
        \o CENTRAL_DIR_ENTRY_SIGNATURE \o Zeros(10) \o Zeros(12)
        \o LE16(8) \o LE16(0) \o LE16(0) \o Zeros(10) \o LE32(0) \o TestName
        \o END_OF_CENTRAL_DIR_SIGNATURE \o Zeros(16) \o LE32(51) \o Zeros(2)

\* an EOCD record cut after its comment-length field's place, where the
\* bytes that follow offset 20 are a central directory record
TailRecordFile ==
    SubSeq(EocdRecord(1, 0, 0, <<>>), 1, 20) \o CdRecord(0, <<>>, Zeros(4), 1, 1)

\* an archive without entries whose comment is itself shaped like an EOCD
\* record: 22 bytes with the signature, declaring one comment byte that the
\* file does not have
DecoyCommentFile ==
    Zeros(3) \o EocdRecord(0, 0, 3, SubSeq(EocdRecord(0, 0, 0, Rep(1)), 1, 22))

\* an archive that starts with its central directory: one record, then the
\* EOCD with a comment of one byte
CdFirstFile == CdRecords(1) \o EocdRecord(1, Len(CdRecords(1)), 0, Rep(1))

\* 0x04034b50 as to_le_bytes gives it (types.rs, line 1)
LOCAL_FILE_HEADER_SIGNATURE == <<80, 75, 3, 4>>

\* a local file header as an archiver writes it: 30 bytes, then the name
LocalHeader(method, name, crc, csize, usize) ==
    LOCAL_FILE_HEADER_SIGNATURE \o LE16(20) \o LE16(0) \o LE16(method) \o Zeros(4)
        \o crc \o LE32(csize) \o LE32(usize) \o LE16(Len(name)) \o LE16(0) \o name

\* an archive of one stored entry named "a" with the data of catalog entry 1:
\* local header, data, central directory record, EOCD
StoredArchive ==
    LET e == Catalog[1]
        lfh == LocalHeader(0, <<97>>, e.crc32, Len(e.file_data), Len(e.file_data))
        cd == CdRecord(0, <<97>>, e.crc32, Len(e.file_data), Len(e.file_data))
    IN lfh \o e.file_data \o cd
           \o EocdRecord(1, Len(cd), Len(lfh) + Len(e.file_data), <<>>)

\* the ZipEntry values read_entry_data is called with: what StoredArchive's
\* central directory says of the entry at offset 0, and entries that differ
\* from it in method, CRC or compressed size
NoEntry == [name |-> <<>>, method |-> "none", crc32 |-> <<>>, compressed_size |-> 0,
            size |-> 0, header_offset |-> 0]
DataEntries ==
    {[name |-> <<97>>, method |-> m, crc32 |-> c, compressed_size |-> cs,
      size |-> Len(Catalog[1].file_data), header_offset |-> 0] :
        m \in {"Stored", "Deflated"}, c \in {Catalog[1].crc32, Zeros(4)},
        cs \in {0, Len(Catalog[1].file_data)}}

\* the files of the model, each with the number of central directory records
\* it was written with and the entry count its EOCD declares
InputFiles ==
    {[file |-> ArchiveFile(nrec, declared, clen), nrec |-> nrec, declared |-> declared] :
        nrec \in 0..MaxRecords, declared \in 0..MaxRecords, clen \in 0..MaxComment}
    \cup {[file |-> SubSeq(ArchiveFile(0, 0, 0), 1, n), nrec |-> 0, declared |-> 0] :
              n \in {0, 21}}
    \cup {[file |-> TestZipFile, nrec |-> 1, declared |-> 0],
          [file |-> TailRecordFile, nrec |-> 0, declared |-> 1],
          [file |-> DecoyCommentFile, nrec |-> 0, declared |-> 0],
          [file |-> EocdRecord(0, 0, 0, <<>>), nrec |-> 0, declared |-> 0],
          [file |-> CdFirstFile, nrec |-> 1, declared |-> 1],
          \* the file test_invalid_signature writes (reader.rs, line 266)
          [file |-> <<255, 255, 255, 255>>, nrec |-> 0, declared |-> 0],
          [file |-> Zeros(30), nrec |-> 0, declared |-> 0],
          [file |-> StoredArchive, nrec |-> 1, declared |-> 1],
          \* a record whose name of 40 bytes is missing, then the EOCD
          [file |-> SubSeq(CdRecord(0, Rep(40), Zeros(4), 0, 0), 1, 46)
                        \o EocdRecord(1, 46, 0, Rep(1)),
           nrec |-> 1, declared |-> 1]}
    \* TailRecordFile cut inside the record's signature and inside its header
    \cup {[file |-> SubSeq(TailRecordFile, 1, n), nrec |-> 1, declared |-> 1] :
              n \in {22, 50}}

ReaderInit ==
    /\ rd_pc = "idle"
    /\ rd_file = <<>>
    /\ rd_input = [nrec |-> 0, declared |-> 0]
    /\ rd_cursor = 0
    /\ rd_position = 0
    /\ rd_entries = <<>>
    /\ rd_tx_alive = TRUE
    /\ rd_ret = "none"
    /\ ed_entry = NoEntry
    /\ ed_ret = "none"
    /\ ed_data = <<>>
    /\ mm_pc = "idle"
    /\ mm_map = <<>>
    /\ mm_offset = 0
    /\ mm_items = <<>>
    /\ mm_ret = "none"
    /\ sz_len = [hi |-> 0, lo |-> 0]
    /\ sz_ret = [kind |-> "none", size |-> [hi |-> 0, lo |-> 0]]
    /\ dir_state = "idle"
    /\ dir_len = 0
    /\ dir_entries = {}
    /\ dir_ret = "none"

\* ZipReader::new, lines 31-38, on a file just opened
RdNew(input, tx_alive) ==
    /\ rd_pc = "idle"
    /\ dir_state = "idle"
    /\ rd_pc' = "find"
    /\ rd_file' = input.file
    /\ rd_input' = [nrec |-> input.nrec, declared |-> input.declared]
    /\ rd_tx_alive' = tx_alive
    /\ UNCHANGED <<rd_cursor, rd_position, rd_entries, rd_ret>>
    /\ UNCHANGED <<dir_state, dir_len, dir_entries, dir_ret>>
    /\ UNCHANGED <<budgetVars, poolVars, callerVars, wpVars, prVars, statsVars, anVars,
                   wnVars, permVars, ckVars, sqVars, schVars, awVars, errVars, repVars,
                   tpVars, runVars, edVars, sizeVars, mmVars>>

\* Read::read_exact at the cursor; reading no bytes succeeds anywhere
ReadExact(file, cursor, n) ==
    IF n > 0 /\ cursor + n > Len(file) THEN [ok |-> FALSE, bytes |-> <<>>, cursor |-> cursor]
    ELSE [ok |-> TRUE, bytes |-> SubSeq(file, cursor + 1, cursor + n), cursor |-> cursor + n]

RECURSIVE FindEocdFrom(_, _)
\* the loop of find_end_of_central_directory, lines 101-116, from iteration i;
\* "Underflow" is file_size - 22 - i computed below zero in u64
FindEocdFrom(file, i) ==
    IF i >= MAX_COMMENT_LENGTH THEN [res |-> "EndOfCentralDirectoryNotFound", pos |-> 0]
    ELSE IF Len(file) < 22 + i THEN [res |-> "Underflow", pos |-> 0]
    ELSE LET pos == Len(file) - 22 - i
             buffer == ReadExact(file, pos, 22).bytes
         IN IF SubSeq(buffer, 1, 4) = END_OF_CENTRAL_DIR_SIGNATURE
            THEN [res |-> "Ok", pos |-> pos]
            ELSE FindEocdFrom(file, i + 1)

\* read_entries, lines 43-44: find_end_of_central_directory, lines 96-117.
\* The subtraction below zero panics in a build with overflow checks; without
\* them it wraps, the seek far past the end succeeds and read_exact fails.
RdFind(checked) ==
    /\ rd_pc = "find"
    /\ LET r == FindEocdFrom(rd_file, 0) IN
       IF r.res = "Ok"
       THEN /\ rd_position' = r.pos
            /\ rd_cursor' = r.pos + 22
            /\ rd_pc' = "offset"
            /\ UNCHANGED rd_ret
       ELSE /\ rd_pc' = "done"
            /\ rd_ret' = IF r.res = "Underflow"
                         THEN (IF checked THEN "Panic" ELSE "Err_Io")
                         ELSE "Err_EndOfCentralDirectoryNotFound"
            /\ UNCHANGED <<rd_position, rd_cursor>>
    /\ UNCHANGED <<rd_file, rd_input, rd_entries, rd_tx_alive>>
    /\ UNCHANGED <<dir_state, dir_len, dir_entries, dir_ret>>
    /\ UNCHANGED <<budgetVars, poolVars, callerVars, wpVars, prVars, statsVars, anVars,
                   wnVars, permVars, ckVars, sqVars, schVars, awVars, errVars, repVars,
                   tpVars, runVars, edVars, sizeVars, mmVars>>

\* read_entries, lines 47-48: read_central_directory_offset, lines 120-125;
\* self.position is set, the file is not sought
RdOffset ==
    /\ rd_pc = "offset"
    /\ LET r == ReadExact(rd_file, rd_position + 16, 4) IN
       IF r.ok
       THEN /\ rd_position' = from_le_bytes(r.bytes)
            /\ rd_cursor' = r.cursor
            /\ rd_pc' = "entries"
            /\ UNCHANGED rd_ret
       ELSE /\ rd_pc' = "done"
            /\ rd_ret' = "Err_Io"
            /\ UNCHANGED <<rd_position, rd_cursor>>
    /\ UNCHANGED <<rd_file, rd_input, rd_entries, rd_tx_alive>>
    /\ UNCHANGED <<dir_state, dir_len, dir_entries, dir_ret>>
    /\ UNCHANGED <<budgetVars, poolVars, callerVars, wpVars, prVars, statsVars, anVars,
                   wnVars, permVars, ckVars, sqVars, schVars, awVars, errVars, repVars,
                   tpVars, runVars, edVars, sizeVars, mmVars>>

\* TryFrom<u16> for CompressionMethod (models/file_info.rs, lines 72-82)
MethodTryFrom(value) ==
    IF value = 0 THEN "Stored" ELSE IF value = 8 THEN "Deflated" ELSE "Other"

\* read_central_directory_entry, lines 128-192, at the file's cursor c: the
\* fields are read at the offsets the code's reads and seeks add up to
ReadCentralDirectoryEntry(file, c) ==
    LET signature == ReadExact(file, c, 4)
        none == [entry |-> <<>>, cursor |-> c]
    IN IF ~signature.ok THEN [res |-> "None"] @@ none
       ELSE IF signature.bytes # CENTRAL_DIR_ENTRY_SIGNATURE THEN [res |-> "None"] @@ none
       ELSE IF ~ReadExact(file, c + 42, 4).ok THEN [res |-> "Err_Io"] @@ none
       ELSE LET name_length == from_le_bytes(ReadExact(file, c + 26, 2).bytes)
                extra_length == from_le_bytes(ReadExact(file, c + 28, 2).bytes)
                comment_length == from_le_bytes(ReadExact(file, c + 30, 2).bytes)
                name == ReadExact(file, c + 46, name_length)
            IN IF ~name.ok THEN [res |-> "Err_Io"] @@ none
               ELSE [res |-> "Some",
                     entry |-> [name |-> name.bytes,
                                method |-> MethodTryFrom(
                                    from_le_bytes(ReadExact(file, c + 8, 2).bytes)),
                                crc32 |-> ReadExact(file, c + 14, 4).bytes,
                                compressed_size |->
                                    from_le_bytes(ReadExact(file, c + 18, 4).bytes),
                                size |-> from_le_bytes(ReadExact(file, c + 22, 4).bytes),
                                header_offset |->
                                    from_le_bytes(ReadExact(file, c + 42, 4).bytes)],
                     cursor |-> name.cursor + extra_length + comment_length]

\* read_entries, lines 52-57: one turn of the loop
RdEntry ==
    /\ rd_pc = "entries"
    /\ LET r == ReadCentralDirectoryEntry(rd_file, rd_cursor) IN
       /\ rd_cursor' = r.cursor
       /\ rd_entries' = IF r.res = "Some" THEN Append(rd_entries, r.entry) ELSE rd_entries
       /\ rd_pc' = IF r.res = "Some" THEN "entries"
                   ELSE IF r.res = "None" THEN "send" ELSE "done"
       /\ rd_ret' = IF r.res = "Err_Io" THEN "Err_Io" ELSE rd_ret
    /\ UNCHANGED <<rd_file, rd_input, rd_position, rd_tx_alive>>
    /\ UNCHANGED <<dir_state, dir_len, dir_entries, dir_ret>>
    /\ UNCHANGED <<budgetVars, poolVars, callerVars, wpVars, prVars, statsVars, anVars,
                   wnVars, permVars, ckVars, sqVars, schVars, awVars, errVars, repVars,
                   tpVars, runVars, edVars, sizeVars, mmVars>>

\* read_entries, lines 59-65: the progress message, then Ok(entries)
RdSend ==
    /\ rd_pc = "send"
    /\ rd_pc' = "done"
    /\ rd_ret' = IF rd_tx_alive THEN "Ok" ELSE "Err_TaskChannel"
    /\ UNCHANGED <<rd_file, rd_input, rd_cursor, rd_position, rd_entries, rd_tx_alive>>
    /\ UNCHANGED <<dir_state, dir_len, dir_entries, dir_ret>>
    /\ UNCHANGED <<budgetVars, poolVars, callerVars, wpVars, prVars, statsVars, anVars,
                   wnVars, permVars, ckVars, sqVars, schVars, awVars, errVars, repVars,
                   tpVars, runVars, edVars, sizeVars, mmVars>>

\* FileZipReader::read_directory, lines 41-68, on an archive ZipArchive::new
\* accepted: len is archive.len(), readable the indices by_index succeeds on
ReadDirectory(len, readable) ==
    /\ dir_state = "idle"
    /\ rd_pc = "idle"
    /\ dir_state' = "done"
    /\ dir_len' = len
    /\ dir_entries' = {i \in 0..(len - 1) : i \in readable}
    /\ dir_ret' = "Ok"
    /\ UNCHANGED <<rd_pc, rd_file, rd_input, rd_cursor, rd_position, rd_entries,
                   rd_tx_alive, rd_ret>>
    /\ UNCHANGED <<budgetVars, poolVars, callerVars, wpVars, prVars, statsVars, anVars,
                   wnVars, permVars, ckVars, sqVars, schVars, awVars, errVars, repVars,
                   tpVars, runVars, edVars, sizeVars, mmVars>>

\* read_entry_data, lines 69-93, on `file` for `entry`: the result, the
\* bytes of the returned buffer and the file's cursor afterwards.  pool_ok is
\* whether buffer_pool.get_buffer grants the buffer, which it hands out as
\* BytesMut::with_capacity (buffer.rs, line 54): its length is 0, and
\* buffer[..compressed_size] panics for any other compressed_size.  The u16
\* sum name_length + extra_length panics above 65535 with overflow checks
\* and wraps without them.
read_entry_data(file, entry, checked, pool_ok) ==
    LET start == entry.header_offset
        signature == ReadExact(file, start, 4)
        name_length == ReadExact(file, start + 30, 2)
        extra_length == ReadExact(file, start + 32, 2)
        skip == from_le_bytes(name_length.bytes) + from_le_bytes(extra_length.bytes)
        buffer_len == 0
    IN IF ~signature.ok THEN [res |-> "Err_Io", data |-> <<>>, cursor |-> start]
       ELSE IF signature.bytes # LOCAL_FILE_HEADER_SIGNATURE
       THEN [res |-> "Err_InvalidSignature", data |-> <<>>, cursor |-> start + 4]
       ELSE IF ~name_length.ok
       THEN [res |-> "Err_Io", data |-> <<>>, cursor |-> start + 30]
       ELSE IF ~extra_length.ok
       THEN [res |-> "Err_Io", data |-> <<>>, cursor |-> start + 32]
       ELSE IF skip > 65535 /\ checked
       THEN [res |-> "Panic", data |-> <<>>, cursor |-> start + 34]
       ELSE LET data_start == start + 34 + (skip % 65536)
                data == ReadExact(file, data_start, entry.compressed_size)
            IN IF ~pool_ok
               THEN [res |-> "Err_Memory", data |-> <<>>, cursor |-> data_start]
               ELSE IF entry.compressed_size > buffer_len
               THEN [res |-> "Panic", data |-> <<>>, cursor |-> data_start]
               ELSE IF ~data.ok
               THEN [res |-> "Err_Io", data |-> <<>>, cursor |-> data_start]
               ELSE [res |-> "Ok", data |-> data.bytes, cursor |-> data.cursor]

\* a call of read_entry_data once read_entries has returned
RdEntryData(entry, checked, pool_ok) ==
    /\ rd_pc = "done"
    /\ rd_ret = "Ok"
    /\ LET r == read_entry_data(rd_file, entry, checked, pool_ok) IN
       /\ rd_pc' = "data"
       /\ rd_position' = entry.header_offset
       /\ rd_cursor' = r.cursor
       /\ ed_entry' = entry
       /\ ed_ret' = r.res
       /\ ed_data' = r.data
    /\ UNCHANGED <<rd_file, rd_input, rd_entries, rd_tx_alive, rd_ret>>
    /\ UNCHANGED <<dir_state, dir_len, dir_entries, dir_ret>>
    /\ UNCHANGED <<budgetVars, poolVars, callerVars, wpVars, prVars, statsVars, anVars,
                   wnVars, permVars, ckVars, sqVars, schVars, awVars, errVars, repVars,
                   tpVars, runVars, mmVars, sizeVars>>

\* a u64 file length is kept as [hi, lo], standing for hi * 65536 + lo with
\* lo < 65536; MAX_SIZE (lib.rs, line 3) is 4 * 1024 * 1024 * 1024
MAX_SIZE == [hi |-> (4 * 1024 * 1024) \div 64, lo |-> 0]

\* a >= b and a > b on u64
U64Ge(a, b) == a.hi > b.hi \/ (a.hi = b.hi /\ a.lo >= b.lo)
U64Gt(a, b) == a.hi > b.hi \/ (a.hi = b.hi /\ a.lo > b.lo)

\* the file lengths of the model: around 0, 4 GiB - 64 KiB, 4 GiB and above
FileLengths == {[hi |-> h, lo |-> l] : h \in {0, 65535, 65536, 65537}, l \in {0, 1, 65535}}

\* FileZipReader::validate_size, lines 22-30; `exists` is whether
\* tokio::fs::metadata finds the file
ValidateSize(len, exists) ==
    /\ sz_ret.kind = "none"
    /\ sz_len' = len
    /\ sz_ret' = IF ~exists THEN [kind |-> "Err_Io", size |-> [hi |-> 0, lo |-> 0]]
                 ELSE IF U64Gt(len, MAX_SIZE) THEN [kind |-> "Err_SizeLimit", size |-> len]
                 ELSE [kind |-> "Ok", size |-> [hi |-> 0, lo |-> 0]]
    /\ UNCHANGED <<budgetVars, poolVars, callerVars, wpVars, prVars, statsVars, anVars,
                   wnVars, permVars, ckVars, sqVars, schVars, awVars, errVars, repVars,
                   tpVars, runVars, edVars, rdVars, mmVars>>

(***************************************************************************)
(* src/src/zip/reader.rs: ZipReader over a memory map, ZipEntryIterator    *)
(***************************************************************************)
\* ZipReader::validate_map, lines 51-77
validate_map(map) ==
    IF Len(map) < 22 THEN "Err_TooSmall"
    ELSE IF \E i \in 0..(Len(map) - 22 - 1) :
                SubSeq(map, i + 1, i + 4) = END_OF_CENTRAL_DIR_SIGNATURE
         THEN "Ok"
         ELSE "Err_NotValid"

\* ZipReader::new, lines 21-48, on the bytes of the file mapped
MmNew(file) ==
    /\ mm_pc = "idle"
    /\ mm_map' = file
    /\ mm_ret' = validate_map(file)
    /\ mm_pc' = IF validate_map(file) = "Ok" THEN "open" ELSE "done"
    /\ UNCHANGED <<mm_offset, mm_items>>
    /\ UNCHANGED <<budgetVars, poolVars, callerVars, wpVars, prVars, statsVars, anVars,
                   wnVars, permVars, ckVars, sqVars, schVars, awVars, errVars, repVars,
                   tpVars, runVars, edVars, sizeVars, rdVars>>

\* ZipEntryIterator::next, lines 114-192, at current_offset off; an index or
\* a slice bound beyond the data panics
IteratorNext(map, off) ==
    LET len == Len(map) - off
        none == [entry |-> <<>>, offset |-> off]
    IN IF off >= Len(map) THEN [res |-> "None"] @@ none
       ELSE IF len < 4 THEN [res |-> "Panic"] @@ none
       ELSE IF SubSeq(map, off + 1, off + 4) # CENTRAL_DIR_ENTRY_SIGNATURE
       THEN [res |-> "Err_Format"] @@ none
       ELSE IF len < 46 THEN [res |-> "Panic"] @@ none
       ELSE LET compressed_size == from_le_bytes(SubSeq(map, off + 21, off + 24))
                file_name_length == from_le_bytes(SubSeq(map, off + 29, off + 30))
                extra_field_length == from_le_bytes(SubSeq(map, off + 31, off + 32))
                file_comment_length == from_le_bytes(SubSeq(map, off + 33, off + 34))
                local_header_offset == from_le_bytes(SubSeq(map, off + 43, off + 46))
                data_start == local_header_offset + 30 + file_name_length
                                  + extra_field_length
            IN IF len < 46 + file_name_length + extra_field_length
                  \/ data_start + compressed_size > Len(map)
               THEN [res |-> "Panic"] @@ none
               ELSE [res |-> "Some",
                     entry |->
                         [flags |-> from_le_bytes(SubSeq(map, off + 9, off + 10)),
                          compression_method |->
                              from_le_bytes(SubSeq(map, off + 11, off + 12)),
                          crc32 |-> SubSeq(map, off + 17, off + 20),
                          compressed_size |-> compressed_size,
                          uncompressed_size |->
                              from_le_bytes(SubSeq(map, off + 25, off + 28)),
                          file_name |-> SubSeq(map, off + 47, off + 46 + file_name_length),
                          file_data |-> SubSeq(map, data_start + 1,
                                               data_start + compressed_size)],
                     offset |-> off + 46 + file_name_length + extra_field_length
                                    + file_comment_length]

\* one call of next() by a consumer that stops at the first Err item
MmNext ==
    /\ mm_pc = "open"
    /\ LET r == IteratorNext(mm_map, mm_offset) IN
       /\ mm_offset' = r.offset
       /\ mm_items' = IF r.res = "Some" THEN Append(mm_items, r.entry) ELSE mm_items
       /\ mm_pc' = IF r.res = "Some" THEN "open" ELSE "done"
       /\ mm_ret' = IF r.res = "Some" THEN mm_ret
                    ELSE IF r.res = "None" THEN "Ok" ELSE r.res
    /\ UNCHANGED mm_map
    /\ UNCHANGED <<budgetVars, poolVars, callerVars, wpVars, prVars, statsVars, anVars,
                   wnVars, permVars, ckVars, sqVars, schVars, awVars, errVars, repVars,
                   tpVars, runVars, edVars, sizeVars, rdVars>>

ReaderNext ==
    \/ rd_pc = "idle" /\ mm_pc = "idle"
           /\ \E input \in InputFiles, tx_alive \in BOOLEAN : RdNew(input, tx_alive)
    \/ rd_pc = "idle" /\ dir_state = "idle" /\ mm_pc = "idle"
           /\ \E input \in InputFiles : MmNew(input.file)
    \/ MmNext
    \/ rd_pc = "idle" /\ mm_pc = "idle"
           /\ \E len \in FileLengths, exists \in BOOLEAN : ValidateSize(len, exists)
    \/ \E checked \in BOOLEAN : RdFind(checked)
    \/ RdOffset
    \/ RdEntry
    \/ RdSend
    \/ rd_pc = "done" /\ rd_ret = "Ok"
           /\ \E entry \in DataEntries, checked \in BOOLEAN, pool_ok \in BOOLEAN :
                  RdEntryData(entry, checked, pool_ok)
    \/ mm_pc = "idle"
           /\ \E len \in 0..MaxRecords, readable \in SUBSET (0..(MaxRecords - 1)) :
                  ReadDirectory(len, readable)

(***************************************************************************)
(* src/src/main.rs: main and process_zip.  The chunk stream of the reader  *)
(* and Processor::process_chunk are seen through what they hand back.      *)
(***************************************************************************)
\* main, lines 186-191: the flag is set and the handler installed
RunInit ==
    /\ pz_pc = "idle"
    /\ pz_remaining = 0
    /\ pz_results = 0
    /\ pz_running = TRUE
    /\ pz_work_at_cancel = FALSE
    /\ pz_ret = "none"

\* process_zip, lines 126-142, on a file whose stream holds n chunks
PzStart(n, exists) ==
    /\ pz_pc = "idle"
    /\ pz_pc' = IF exists THEN "next" ELSE "done"
    /\ pz_ret' = IF exists THEN pz_ret ELSE "Err_Io"
    /\ pz_remaining' = IF exists THEN n ELSE 0
    /\ UNCHANGED <<pz_results, pz_running, pz_work_at_cancel>>
    /\ UNCHANGED <<budgetVars, poolVars, callerVars, wpVars, prVars, statsVars, anVars,
                   wnVars, permVars, ckVars, sqVars, schVars, awVars, errVars, repVars,
                   tpVars, rdVars, mmVars, sizeVars, edVars>>

\* stream.next().await, line 143; on None the loop ends and lines 164-168
\* return the analysis
PzStreamNext ==
    /\ pz_pc = "next"
    /\ IF pz_remaining = 0
       THEN /\ pz_pc' = "done"
            /\ pz_ret' = "Ok"
            /\ UNCHANGED pz_remaining
       ELSE /\ pz_pc' = "check"
            /\ pz_remaining' = pz_remaining - 1
            /\ UNCHANGED pz_ret
    /\ UNCHANGED <<pz_results, pz_running, pz_work_at_cancel>>
    /\ UNCHANGED <<budgetVars, poolVars, callerVars, wpVars, prVars, statsVars, anVars,
                   wnVars, permVars, ckVars, sqVars, schVars, awVars, errVars, repVars,
                   tpVars, rdVars, mmVars, sizeVars, edVars>>

\* lines 144-147: running.load(SeqCst) once a chunk has arrived
PzCheck ==
    /\ pz_pc = "check"
    /\ pz_pc' = IF pz_running THEN "process" ELSE "done"
    /\ pz_ret' = IF pz_running THEN pz_ret ELSE "Err_Cancelled"
    /\ UNCHANGED <<pz_remaining, pz_results, pz_running, pz_work_at_cancel>>
    /\ UNCHANGED <<budgetVars, poolVars, callerVars, wpVars, prVars, statsVars, anVars,
                   wnVars, permVars, ckVars, sqVars, schVars, awVars, errVars, repVars,
                   tpVars, rdVars, mmVars, sizeVars, edVars>>

\* lines 149-160: chunk_result?, process_chunk, the progress update
PzProcess(chunk_ok, process_ok) ==
    /\ pz_pc = "process"
    /\ pz_pc' = IF chunk_ok /\ process_ok THEN "next" ELSE "done"
    /\ pz_ret' = IF ~chunk_ok THEN "Err_Chunk"
                 ELSE IF ~process_ok THEN "Err_Processing" ELSE pz_ret
    /\ pz_results' = IF chunk_ok /\ process_ok THEN pz_results + 1 ELSE pz_results
    /\ UNCHANGED <<pz_remaining, pz_running, pz_work_at_cancel>>
    /\ UNCHANGED <<budgetVars, poolVars, callerVars, wpVars, prVars, statsVars, anVars,
                   wnVars, permVars, ckVars, sqVars, schVars, awVars, errVars, repVars,
                   tpVars, rdVars, mmVars, sizeVars, edVars>>

\* the handler of ctrlc::set_handler, lines 188-191; work remains while a
\* chunk is in hand or the stream still holds one
CtrlC ==
    /\ pz_running
    /\ pz_running' = FALSE
    /\ pz_work_at_cancel' = (pz_pc \in {"check", "process"} \/ pz_remaining > 0)
    /\ UNCHANGED <<pz_pc, pz_remaining, pz_results, pz_ret>>
    /\ UNCHANGED <<budgetVars, poolVars, callerVars, wpVars, prVars, statsVars, anVars,
                   wnVars, permVars, ckVars, sqVars, schVars, awVars, errVars, repVars,
                   tpVars, rdVars, mmVars, sizeVars, edVars>>

RunNext ==
    \/ \E n \in 0..MaxChunks, exists \in BOOLEAN : PzStart(n, exists)
    \/ PzStreamNext
    \/ PzCheck
    \/ \E chunk_ok \in BOOLEAN, process_ok \in BOOLEAN : PzProcess(chunk_ok, process_ok)
    \/ CtrlC

(***************************************************************************)
(* src/src/thread_pool.rs: ThreadPool                                      *)
(***************************************************************************)
PoolThreads == 1..ThreadCount

\* bounded(config.thread_count * 2), line 95
ChanCapacity == ThreadCount * 2

\* ThreadPool::new has returned, lines 94-173: the threads are spawned and
\* have not run yet
\* no entry of the worker in the DashMap metrics
NoMetrics == [present |-> FALSE, completed |-> 0, failed |-> 0]

\* ThreadMetrics::default(), lines 27-37 (derive Default)
DefaultMetrics == [present |-> TRUE, completed |-> 0, failed |-> 0]

\* a task's result counted as completed where every result should be told
\* apart
CountResult_AlwaysCompleted(m, ok) == [m EXCEPT !.completed = @ + 1]

\* lines 130-134 and 141-145: tasks_completed += 1 for Ok, tasks_failed += 1
\* for Err (processing_time_ms, wall-clock time, is left out)
CountResult(m, ok) ==
    IF ok THEN [m EXCEPT !.completed = @ + 1] ELSE [m EXCEPT !.failed = @ + 1]

TpInit ==
    /\ tp_running = TRUE
    /\ tp_chan = <<>>
    /\ tp_worker = [w \in PoolThreads |-> [pc |-> "spawned", task |-> 0]]
    /\ tp_states = [w \in PoolThreads |-> "absent"]
    /\ tp_started = <<>>
    /\ tp_metrics = [completed |-> 0, failed |-> 0]
    /\ tp_thread_metrics = [w \in PoolThreads |-> NoMetrics]
    /\ tp_results = [id \in 1..MaxTasks |-> "pending"]
    /\ tp_owner = "alive"
    /\ tp_sent = 0
    /\ tp_in_drop = FALSE
    /\ tp_joined = 0
    /\ tp_next_id = 1
    /\ tp_exec_ret = "none"

\* every worker's closure has returned and dropped its Receiver: a send fails
Disconnected == \A w \in PoolThreads : tp_worker[w].pc = "exited"

\* the worker's closure, lines 116-118
TpWorkerStart(w) ==
    /\ tp_worker[w].pc = "spawned"
    /\ tp_worker' = [tp_worker EXCEPT ![w].pc = "loop"]
    /\ tp_states' = [tp_states EXCEPT ![w] = "Idle"]
    /\ tp_thread_metrics' = [tp_thread_metrics EXCEPT ![w] = DefaultMetrics]
    /\ UNCHANGED <<tp_running, tp_chan, tp_started, tp_metrics, tp_owner, tp_sent,
                   tp_in_drop, tp_joined, tp_next_id, tp_exec_ret, tp_results>>
    /\ UNCHANGED <<budgetVars, poolVars, callerVars, wpVars, prVars, statsVars, anVars,
                   wnVars, permVars, ckVars, sqVars, schVars, awVars, errVars, repVars,
                   rdVars, mmVars, sizeVars, edVars, runVars>>

\* `while *running.read()`, line 120
TpWorkerLoop(w) ==
    /\ tp_worker[w].pc = "loop"
    /\ tp_worker' = [tp_worker EXCEPT ![w].pc = IF tp_running THEN "recv" ELSE "exiting"]
    /\ UNCHANGED <<tp_running, tp_chan, tp_states, tp_started, tp_metrics, tp_owner,
                   tp_sent, tp_in_drop, tp_joined, tp_next_id, tp_exec_ret,
                   tp_thread_metrics, tp_results>>
    /\ UNCHANGED <<budgetVars, poolVars, callerVars, wpVars, prVars, statsVars, anVars,
                   wnVars, permVars, ckVars, sqVars, schVars, awVars, errVars, repVars,
                   rdVars, mmVars, sizeVars, edVars, runVars>>

\* receiver.recv_timeout(timeout), lines 121-123 and 149-153: a Task, a
\* Shutdown, or on an empty channel the timeout, after which the loop goes on
TpWorkerRecv(w) ==
    /\ tp_worker[w].pc = "recv"
    /\ IF tp_chan = <<>>
       THEN /\ tp_worker' = [tp_worker EXCEPT ![w].pc = "loop"]
            /\ UNCHANGED <<tp_chan, tp_states, tp_started, tp_thread_metrics, tp_results>>
       ELSE /\ tp_chan' = Tail(tp_chan)
            /\ IF Head(tp_chan).kind = "Task"
               THEN /\ tp_worker' = [tp_worker EXCEPT
                                         ![w] = [pc |-> "task", task |-> Head(tp_chan).id]]
                    /\ tp_states' = [tp_states EXCEPT ![w] = "Processing"]
                    /\ tp_started' = Append(tp_started, Head(tp_chan).id)
               ELSE /\ tp_worker' = [tp_worker EXCEPT ![w].pc = "exiting"]
                    /\ tp_states' = [tp_states EXCEPT ![w] = "ShuttingDown"]
                    /\ UNCHANGED tp_started
    /\ UNCHANGED <<tp_running, tp_metrics, tp_owner, tp_sent, tp_in_drop, tp_joined,
                   tp_next_id, tp_exec_ret, tp_thread_metrics, tp_results>>
    /\ UNCHANGED <<budgetVars, poolVars, callerVars, wpVars, prVars, statsVars, anVars,
                   wnVars, permVars, ckVars, sqVars, schVars, awVars, errVars, repVars,
                   rdVars, mmVars, sizeVars, edVars, runVars>>

\* task() has returned, lines 125-136: the worker's own entry of the DashMap
\* metrics is updated under the entry's lock
TpWorkerFinish(w, ok) ==
    /\ tp_worker[w].pc = "task"
    /\ tp_results' = [tp_results EXCEPT ![tp_worker[w].task] = IF ok THEN "Ok" ELSE "Err"]
    /\ tp_thread_metrics' =
           [tp_thread_metrics EXCEPT
                ![w] = IF @.present THEN CountResult(@, ok) ELSE @]
    /\ tp_worker' = [tp_worker EXCEPT ![w].pc = "global"]
    /\ UNCHANGED <<tp_running, tp_chan, tp_states, tp_started, tp_metrics, tp_owner,
                   tp_sent, tp_in_drop, tp_joined, tp_next_id, tp_exec_ret>>
    /\ UNCHANGED <<budgetVars, poolVars, callerVars, wpVars, prVars, statsVars, anVars,
                   wnVars, permVars, ckVars, sqVars, schVars, awVars, errVars, repVars,
                   rdVars, mmVars, sizeVars, edVars, runVars>>

\* lines 138-147: the global metrics under the mutex, then Idle
TpWorkerGlobal(w) ==
    /\ tp_worker[w].pc = "global"
    /\ tp_metrics' = CountResult(tp_metrics, tp_results[tp_worker[w].task] = "Ok")
    /\ tp_states' = [tp_states EXCEPT ![w] = "Idle"]
    /\ tp_worker' = [tp_worker EXCEPT ![w] = [pc |-> "loop", task |-> 0]]
    /\ UNCHANGED <<tp_running, tp_chan, tp_started, tp_owner, tp_sent, tp_in_drop,
                   tp_joined, tp_next_id, tp_exec_ret, tp_thread_metrics, tp_results>>
    /\ UNCHANGED <<budgetVars, poolVars, callerVars, wpVars, prVars, statsVars, anVars,
                   wnVars, permVars, ckVars, sqVars, schVars, awVars, errVars, repVars,
                   rdVars, mmVars, sizeVars, edVars, runVars>>

\* lines 157-159: the entries are removed and the thread ends
TpWorkerExit(w) ==
    /\ tp_worker[w].pc = "exiting"
    /\ tp_worker' = [tp_worker EXCEPT ![w].pc = "exited"]
    /\ tp_states' = [tp_states EXCEPT ![w] = "absent"]
    /\ tp_thread_metrics' = [tp_thread_metrics EXCEPT ![w] = NoMetrics]
    /\ UNCHANGED <<tp_running, tp_chan, tp_started, tp_metrics, tp_owner, tp_sent,
                   tp_in_drop, tp_joined, tp_next_id, tp_exec_ret, tp_results>>
    /\ UNCHANGED <<budgetVars, poolVars, callerVars, wpVars, prVars, statsVars, anVars,
                   wnVars, permVars, ckVars, sqVars, schVars, awVars, errVars, repVars,
                   rdVars, mmVars, sizeVars, edVars, runVars>>

\* ThreadPool::execute, lines 176-189; send waits while the channel is full
TpExecute ==
    /\ tp_owner = "alive"
    /\ tp_next_id <= MaxTasks
    /\ IF ~tp_running
       THEN /\ tp_exec_ret' = "Err_ThreadPool"
            /\ UNCHANGED <<tp_chan, tp_next_id, tp_thread_metrics, tp_results>>
       ELSE IF Disconnected
       THEN /\ tp_exec_ret' = "Err_ThreadPool"
            /\ UNCHANGED <<tp_chan, tp_next_id, tp_thread_metrics, tp_results>>
       ELSE /\ Len(tp_chan) < ChanCapacity
            /\ tp_chan' = Append(tp_chan, [kind |-> "Task", id |-> tp_next_id])
            /\ tp_next_id' = tp_next_id + 1
            /\ tp_exec_ret' = "Ok"
    /\ UNCHANGED <<tp_running, tp_worker, tp_states, tp_started, tp_metrics, tp_owner,
                   tp_sent, tp_in_drop, tp_joined, tp_thread_metrics, tp_results>>
    /\ UNCHANGED <<budgetVars, poolVars, callerVars, wpVars, prVars, statsVars, anVars,
                   wnVars, permVars, ckVars, sqVars, schVars, awVars, errVars, repVars,
                   rdVars, mmVars, sizeVars, edVars, runVars>>

\* ThreadPool::shutdown, line 224, called by the owner or (drop) by
\* Drop::drop, line 239
TpShutdown(drop) ==
    /\ tp_owner = "alive"
    /\ drop \/ tp_running
    /\ tp_running' = FALSE
    /\ tp_owner' = "sending"
    /\ tp_sent' = 0
    /\ tp_in_drop' = drop
    /\ UNCHANGED <<tp_chan, tp_worker, tp_states, tp_started, tp_metrics, tp_joined,
                   tp_next_id, tp_exec_ret, tp_thread_metrics, tp_results>>
    /\ UNCHANGED <<budgetVars, poolVars, callerVars, wpVars, prVars, statsVars, anVars,
                   wnVars, permVars, ckVars, sqVars, schVars, awVars, errVars, repVars,
                   rdVars, mmVars, sizeVars, edVars, runVars>>

\* shutdown, lines 227-233: one send of Message::Shutdown; it waits while the
\* channel is full and fails once every Receiver is gone, which ends the
\* call with Err.  Drop ignores the result and goes on to join.
TpShutdownSend ==
    /\ tp_owner = "sending"
    /\ Disconnected \/ Len(tp_chan) < ChanCapacity
    /\ LET last == Disconnected \/ tp_sent + 1 = ThreadCount IN
       /\ tp_chan' = IF Disconnected THEN tp_chan
                     ELSE Append(tp_chan, [kind |-> "Shutdown", id |-> 0])
       /\ tp_sent' = IF Disconnected THEN tp_sent ELSE tp_sent + 1
       /\ tp_owner' = IF ~last THEN "sending"
                      ELSE IF tp_in_drop THEN "joining" ELSE "alive"
       /\ tp_exec_ret' = IF Disconnected THEN "Err_ThreadPool"
                         ELSE IF last THEN "Ok" ELSE tp_exec_ret
    /\ UNCHANGED <<tp_running, tp_worker, tp_states, tp_started, tp_metrics, tp_in_drop,
                   tp_joined, tp_next_id, tp_thread_metrics, tp_results>>
    /\ UNCHANGED <<budgetVars, poolVars, callerVars, wpVars, prVars, statsVars, anVars,
                   wnVars, permVars, ckVars, sqVars, schVars, awVars, errVars, repVars,
                   rdVars, mmVars, sizeVars, edVars, runVars>>

\* Drop::drop, lines 240-242: handle.join() on the next handle
TpJoin ==
    /\ tp_owner = "joining"
    /\ tp_worker[tp_joined + 1].pc = "exited"
    /\ tp_joined' = tp_joined + 1
    /\ tp_owner' = IF tp_joined + 1 = ThreadCount THEN "dropped" ELSE "joining"
    /\ UNCHANGED <<tp_running, tp_chan, tp_worker, tp_states, tp_started, tp_metrics,
                   tp_sent, tp_in_drop, tp_next_id, tp_exec_ret, tp_thread_metrics,
                   tp_results>>
    /\ UNCHANGED <<budgetVars, poolVars, callerVars, wpVars, prVars, statsVars, anVars,
                   wnVars, permVars, ckVars, sqVars, schVars, awVars, errVars, repVars,
                   rdVars, mmVars, sizeVars, edVars, runVars>>

TpWorkerNext(w) ==
    \/ TpWorkerStart(w)
    \/ TpWorkerLoop(w)
    \/ TpWorkerRecv(w)
    \/ \E ok \in BOOLEAN : TpWorkerFinish(w, ok)
    \/ TpWorkerGlobal(w)
    \/ TpWorkerExit(w)

ThreadPoolNext ==
    \/ \E w \in PoolThreads : TpWorkerNext(w)
    \/ TpExecute
    \/ \E drop \in BOOLEAN : TpShutdown(drop)
    \/ TpShutdownSend
    \/ TpJoin

(***************************************************************************)
(* src/src/report/stats.rs, src/src/report/format.rs, src/src/reporter.rs: *)
(* the aggregate a run fills and the reports made from it.  Two runs       *)
(* analyse the same archive side by side; each has its own Stats, its own  *)
(* hasher and its own clock.                                               *)
(***************************************************************************)
Runs == 1..2

\* types.rs lines 4-5: STORED, DEFLATED
MethodCodes == {0, 8}

\* what Stats::update is given for the entries an archive may hold; names
\* are the bytes of the String
ReportCatalog ==
    { [name |-> <<98>>, original_size |-> 4, compressed_size |-> 4, method |-> 0],
      [name |-> <<97, 98>>, original_size |-> 4, compressed_size |-> 2, method |-> 8],
      [name |-> <<97>>, original_size |-> 2, compressed_size |-> 2, method |-> 0],
      [name |-> <<99>>, original_size |-> 6, compressed_size |-> 2, method |-> 8] }

ReportInputs == {es \in SUBSET ReportCatalog : Cardinality(es) <= MaxReportEntries}

\* the orders in which a DashMap or HashMap built with RandomState may
\* iterate over the method keys
HashOrders == {s \in [1..Cardinality(MethodCodes) -> MethodCodes] :
                 \A i, j \in DOMAIN s : i # j => s[i] # s[j]}

\* report/stats.rs lines 29-40: Stats::new
NewStats == [total_size |-> 0, compressed_size |-> 0, file_count |-> 0,
             methods |-> [m \in MethodCodes |-> 0], files |-> {}]

ReportInit ==
    /\ rs_pc = [r \in Runs |-> "idle"]
    /\ rs_input = {}
    /\ rs_seed = [r \in Runs |-> <<>>]
    /\ rs_pending = [r \in Runs |-> {}]
    /\ rs_stats = [r \in Runs |-> NewStats]
    /\ rs_report = [r \in Runs |-> "none"]

\* the same archive is handed to both runs
RsOpen(es) ==
    /\ \A r \in Runs : rs_pc[r] = "idle"
    /\ rs_input' = es
    /\ rs_pending' = [r \in Runs |-> es]
    /\ rs_pc' = [r \in Runs |-> "new"]
    /\ UNCHANGED <<rs_seed, rs_stats, rs_report>>
    /\ UNCHANGED <<budgetVars, poolVars, callerVars, wpVars, prVars, statsVars, anVars,
                   wnVars, permVars, ckVars, sqVars, schVars, awVars, errVars, tpVars,
                   rdVars, mmVars, sizeVars, edVars, runVars>>

\* Stats::new, report/stats.rs lines 29-40: DashMap::new() draws the keys
\* of its hasher
RsNew(r, order) ==
    /\ rs_pc[r] = "new"
    /\ rs_pc' = [rs_pc EXCEPT ![r] = "running"]
    /\ rs_seed' = [rs_seed EXCEPT ![r] = order]
    /\ rs_stats' = [rs_stats EXCEPT ![r] = NewStats]
    /\ UNCHANGED <<rs_input, rs_pending, rs_report>>
    /\ UNCHANGED <<budgetVars, poolVars, callerVars, wpVars, prVars, statsVars, anVars,
                   wnVars, permVars, ckVars, sqVars, schVars, awVars, errVars, tpVars,
                   rdVars, mmVars, sizeVars, edVars, runVars>>

\* Stats::update, report/stats.rs lines 42-69 (the file-type count is kept
\* like the method count and left out)
StatsUpdate(st, e) ==
    [total_size |-> st.total_size + e.original_size,
     compressed_size |-> st.compressed_size + e.compressed_size,
     file_count |-> st.file_count + 1,
     methods |-> [st.methods EXCEPT ![e.method] = @ + 1],
     files |-> st.files \cup {e.name}]

\* a worker of run r records an entry
RsUpdate(r, e) ==
    /\ rs_pc[r] = "running"
    /\ e \in rs_pending[r]
    /\ rs_pending' = [rs_pending EXCEPT ![r] = @ \ {e}]
    /\ rs_stats' = [rs_stats EXCEPT ![r] = StatsUpdate(@, e)]
    /\ UNCHANGED <<rs_pc, rs_input, rs_seed, rs_report>>
    /\ UNCHANGED <<budgetVars, poolVars, callerVars, wpVars, prVars, statsVars, anVars,
                   wnVars, permVars, ckVars, sqVars, schVars, awVars, errVars, tpVars,
                   rdVars, mmVars, sizeVars, edVars, runVars>>

\* Ord for String: bytewise, a proper prefix first
RECURSIVE LexLess(_, _)
LexLess(a, b) ==
    IF a = <<>> THEN b # <<>>
    ELSE IF b = <<>> THEN FALSE
    ELSE IF a[1] # b[1] THEN a[1] < b[1]
    ELSE LexLess(Tail(a), Tail(b))

\* BTreeSet<String>::iter
RECURSIVE BTreeIter(_)
BTreeIter(S) ==
    IF S = {} THEN <<>>
    ELSE LET least == CHOOSE a \in S : \A b \in S \ {a} : LexLess(a, b)
         IN <<least>> \o BTreeIter(S \ {least})

\* DashMap<u16, usize>::iter under the hasher of the run: the keys present,
\* in bucket order
RECURSIVE MapIter(_, _)
MapIter(methods, order) ==
    IF order = <<>> THEN <<>>
    ELSE (IF methods[Head(order)] > 0
          THEN <<[key |-> Head(order), count |-> methods[Head(order)]]>>
          ELSE <<>>) \o MapIter(methods, Tail(order))

\* format.rs lines 67-71
MethodName(code) == IF code = 0 THEN "Stored" ELSE IF code = 8 THEN "Deflated" ELSE "Unknown"

\* {:.N} of a ratio num/den scaled by scale: the nearest integer (no ratio
\* of the model falls on a tie)
RoundDiv(num, den) == (2 * num + den) \div (2 * den)

\* Stats::compression_ratio, report/stats.rs lines 71-80, as format.rs line
\* 44 prints it with {:.1}: tenths of a percent
ReportRatio(total, compressed) ==
    [digits |-> IF total = 0 THEN 0 ELSE RoundDiv(compressed * 1000, total), places |-> 1]

\* Stats::compression_ratio, stats.rs lines 204-212, as stats.rs line 242
\* and reporter.rs line 144 print it, times 100 with {:.2}: hundredths of a
\* percent
StatsRatio(total, compressed) ==
    [digits |-> IF total = 0 THEN 10000 ELSE RoundDiv(compressed * 10000, total),
     places |-> 2]

\* Directory::compression_ratio, lib.rs lines 43-50, and
\* ZipAnalysis::get_compression_ratio, types.rs lines 86-91, as main.rs line
\* 90 prints it, times 100 with {:.1}
SavingsRatio(total, compressed) ==
    [digits |-> IF total = 0 THEN 0
                ELSE IF compressed <= total
                     THEN RoundDiv((total - compressed) * 1000, total)
                     ELSE 0 - RoundDiv((compressed - total) * 1000, total),
     places |-> 1]

\* ZipAnalysis::new, models/analysis.rs lines 37-41, keeps compressed/total
\* (1.0 for an empty archive); ReportWriter::format_summary, writer/report.rs
\* lines 117-130, prints (1.0 - ratio) * 100.0 with {:.2}
WriterRatio(total, compressed) ==
    [digits |-> IF total = 0 THEN 0
                ELSE IF compressed <= total
                     THEN RoundDiv((total - compressed) * 10000, total)
                     ELSE 0 - RoundDiv((compressed - total) * 10000, total),
     places |-> 2]

\* ReportFormatter::generate, format.rs lines 16-83: the lines of the
\* report, sizes in bytes
generate(st, order, duration) ==
    [total |-> st.total_size,
     files_analyzed |-> st.file_count,
     analysis_time |-> duration,
     ratio |-> ReportRatio(st.total_size, st.compressed_size),
     compressed |-> st.compressed_size,
     methods |-> [i \in DOMAIN MapIter(st.methods, order) |->
                    [key |-> MapIter(st.methods, order)[i].key,
                     label |-> MethodName(MapIter(st.methods, order)[i].key),
                     count |-> MapIter(st.methods, order)[i].count]],
     files |-> BTreeIter(st.files)]

\* Reporter::generate_text_report, reporter.rs lines 131-187, with the
\* default ReportConfig (lines 36-46); the performance lines repeat the
\* elapsed time and are left out
generate_text_report(st, now, elapsed) ==
    [generated |-> now,
     total_files |-> st.file_count,
     total_size |-> st.total_size,
     compressed_size |-> st.compressed_size,
     ratio |-> StatsRatio(st.total_size, st.compressed_size),
     processing_time |-> elapsed]

\* format_results, main.rs lines 79-116, of the ZipAnalysis that holds the
\* same totals and a HashMap of the methods
format_results(st, order, elapsed) ==
    [files_analyzed |-> st.file_count,
     analysis_time |-> elapsed,
     ratio |-> SavingsRatio(st.total_size, st.compressed_size),
     methods |-> [i \in DOMAIN MapIter(st.methods, order) |->
                    MapIter(st.methods, order)[i].key]]

\* the clock readings of the model: Local::now() and start_time.elapsed()
Clock == 0..1

\* every worker has returned; the run emits its reports
RsGenerate(r, now, elapsed) ==
    /\ rs_pc[r] = "running"
    /\ rs_pending[r] = {}
    /\ rs_pc' = [rs_pc EXCEPT ![r] = "done"]
    /\ rs_report' = [rs_report EXCEPT ![r] =
                       [formatted |-> generate(rs_stats[r], rs_seed[r], elapsed),
                        text |-> generate_text_report(rs_stats[r], now, elapsed),
                        results |-> format_results(rs_stats[r], rs_seed[r], elapsed),
                        summary |-> WriterRatio(rs_stats[r].total_size,
                                                rs_stats[r].compressed_size)]]
    /\ UNCHANGED <<rs_input, rs_seed, rs_pending, rs_stats>>
    /\ UNCHANGED <<budgetVars, poolVars, callerVars, wpVars, prVars, statsVars, anVars,
                   wnVars, permVars, ckVars, sqVars, schVars, awVars, errVars, tpVars,
                   rdVars, mmVars, sizeVars, edVars, runVars>>

ReportNext ==
    \/ \E es \in ReportInputs : RsOpen(es)
    \/ \E r \in Runs, order \in HashOrders : RsNew(r, order)
    \/ \E r \in Runs : \E e \in rs_pending[r] : RsUpdate(r, e)
    \/ \E r \in Runs, now \in Clock, elapsed \in Clock : RsGenerate(r, now, elapsed)

(***************************************************************************)
(* The error stores: Stats::record_error (src/src/stats.rs), ErrorHandler  *)
(* (src/src/error_handling.rs) and the error channel of SharedState        *)
(* (src/src/sync.rs).                                                      *)
(***************************************************************************)
\* bounded(1000), sync.rs line 134
ErrorChannelCapacity == 1000

ErrorsInit ==
    /\ eh_pc = "idle"
    /\ eh_max = 0
    /\ eh_contexts = <<>>
    /\ eh_calls = 0
    /\ ss_chan = 0

\* Stats::record_error, stats.rs lines 131-134, called by any worker
RecordError(error) ==
    /\ Len(stats_errors) < MaxErrorCalls
    /\ stats_errors' = Append(stats_errors, error)
    /\ UNCHANGED <<stats_files, stats_size, stats_csize, stats_methods, stats_dist>>
    /\ UNCHANGED <<budgetVars, anVars, wnVars, permVars, ckVars, sqVars, schVars, awVars,
                   poolVars, callerVars, wpVars, prVars, tpVars, rdVars, mmVars, sizeVars,
                   edVars, runVars, repVars, errVars>>

\* ErrorHandler::new, error_handling.rs lines 76-84
EhNew(max_contexts) ==
    /\ eh_pc = "idle"
    /\ eh_pc' = "ready"
    /\ eh_max' = max_contexts
    /\ UNCHANGED <<eh_contexts, eh_calls, ss_chan>>
    /\ UNCHANGED <<budgetVars, poolVars, callerVars, wpVars, prVars, statsVars, anVars,
                   wnVars, permVars, ckVars, sqVars, schVars, awVars, tpVars, rdVars,
                   mmVars, sizeVars, edVars, runVars, repVars>>

\* ErrorHandler::handle, error_handling.rs lines 87-95; Vec::remove(0)
\* panics on an empty Vec
EhHandle ==
    /\ eh_pc = "ready"
    /\ eh_calls < MaxErrorCalls
    /\ eh_calls' = eh_calls + 1
    /\ IF Len(eh_contexts) >= eh_max /\ eh_contexts = <<>>
       THEN /\ eh_pc' = "panicked"
            /\ UNCHANGED eh_contexts
       ELSE /\ eh_contexts' = Append(IF Len(eh_contexts) >= eh_max
                                     THEN Tail(eh_contexts) ELSE eh_contexts,
                                     eh_calls + 1)
            /\ UNCHANGED eh_pc
    /\ UNCHANGED <<eh_max, ss_chan>>
    /\ UNCHANGED <<budgetVars, poolVars, callerVars, wpVars, prVars, statsVars, anVars,
                   wnVars, permVars, ckVars, sqVars, schVars, awVars, tpVars, rdVars,
                   mmVars, sizeVars, edVars, runVars, repVars>>

\* ErrorHandler::clear, error_handling.rs lines 108-110
EhClear ==
    /\ eh_pc = "ready"
    /\ eh_contexts # <<>>
    /\ eh_contexts' = <<>>
    /\ UNCHANGED <<eh_pc, eh_max, eh_calls, ss_chan>>
    /\ UNCHANGED <<budgetVars, poolVars, callerVars, wpVars, prVars, statsVars, anVars,
                   wnVars, permVars, ckVars, sqVars, schVars, awVars, tpVars, rdVars,
                   mmVars, sizeVars, edVars, runVars, repVars>>

\* SharedState::record_error, sync.rs lines 181-185: send on the bounded
\* channel waits while the channel is full
SsRecordError ==
    /\ ss_chan < ErrorChannelCapacity
    /\ ss_chan' = ss_chan + 1
    /\ UNCHANGED <<eh_pc, eh_max, eh_contexts, eh_calls>>
    /\ UNCHANGED <<budgetVars, poolVars, callerVars, wpVars, prVars, statsVars, anVars,
                   wnVars, permVars, ckVars, sqVars, schVars, awVars, tpVars, rdVars,
                   mmVars, sizeVars, edVars, runVars, repVars>>

\* SharedState::collect_errors, sync.rs lines 188-194
SsCollectErrors ==
    /\ ss_chan > 0
    /\ ss_chan' = 0
    /\ UNCHANGED <<eh_pc, eh_max, eh_contexts, eh_calls>>
    /\ UNCHANGED <<budgetVars, poolVars, callerVars, wpVars, prVars, statsVars, anVars,
                   wnVars, permVars, ckVars, sqVars, schVars, awVars, tpVars, rdVars,
                   mmVars, sizeVars, edVars, runVars, repVars>>

ErrorsNext ==
    \/ \E error \in {"Err_InvalidSignature"} : RecordError(error)
    \/ \E max_contexts \in 0..MaxContexts : EhNew(max_contexts)
    \/ EhHandle
    \/ EhClear
    \/ SsRecordError
    \/ SsCollectErrors

(***************************************************************************)
(* Writing the report file: atomic_write (src/src/main.rs), and the        *)
(* writers that create the output file itself, Reporter::write_report      *)
(* (src/src/reporter.rs) and ReportWriter::write (src/src/writer/report.rs)*)
(***************************************************************************)
\* the paths of the model: a stem and an extension ("" for none)
OutputPaths == {[stem |-> "report", ext |-> e] : e \in {"txt", "tmp", ""}}

\* PathBuf::with_extension("tmp"), main.rs line 45: the extension is
\* replaced, not appended
WithExtensionTmp(path) == [stem |-> path.stem, ext |-> "tmp"]

\* the report to write, in the pieces write_all may get through, and the
\* report of an earlier run
NoFile == [exists |-> FALSE, data |-> <<>>]
NewReport == <<"header", "files", "summary">>
OldReport == <<"old">>
FileOf(data) == [exists |-> TRUE, data |-> data]

WriterInit ==
    /\ aw_pc = "idle"
    /\ aw_kind = "none"
    /\ aw_path = [stem |-> "report", ext |-> ""]
    /\ aw_old = NoFile
    /\ aw_fs = [p \in OutputPaths |-> NoFile]
    /\ aw_ret = "none"

\* the file the writer creates and writes: temp_path for atomic_write
\* (main.rs lines 45, 48), the path itself for Reporter::write_report
\* (reporter.rs line 89) and ReportWriter::write (writer/report.rs line 59)
WriterTarget == IF aw_kind = "atomic_write" THEN WithExtensionTmp(aw_path) ELSE aw_path

\* a writer is called with OUTPUT = path, which holds old
AwStart(kind, path, old) ==
    /\ aw_pc = "idle"
    /\ aw_pc' = "create"
    /\ aw_kind' = kind
    /\ aw_path' = path
    /\ aw_old' = old
    /\ aw_fs' = [p \in OutputPaths |-> IF p = path THEN old ELSE NoFile]
    /\ UNCHANGED aw_ret
    /\ UNCHANGED <<budgetVars, poolVars, callerVars, wpVars, prVars, statsVars, anVars,
                   wnVars, permVars, ckVars, sqVars, schVars, tpVars, rdVars, mmVars,
                   sizeVars, edVars, runVars, repVars, errVars>>

\* File::create: main.rs lines 48-49, reporter.rs line 89, writer/report.rs
\* line 59; the file is created or truncated
AwCreate(ok) ==
    /\ aw_pc = "create"
    /\ aw_pc' = IF ok THEN "write" ELSE "done"
    /\ aw_ret' = IF ok THEN aw_ret ELSE "Err_Io"
    /\ aw_fs' = IF ok THEN [aw_fs EXCEPT ![WriterTarget] = FileOf(<<>>)] ELSE aw_fs
    /\ UNCHANGED <<aw_kind, aw_path, aw_old>>
    /\ UNCHANGED <<budgetVars, poolVars, callerVars, wpVars, prVars, statsVars, anVars,
                   wnVars, permVars, ckVars, sqVars, schVars, tpVars, rdVars, mmVars,
                   sizeVars, edVars, runVars, repVars, errVars>>

\* write_all: main.rs lines 51-52, reporter.rs line 95, writer/report.rs
\* lines 64-78; one more piece reaches the file, or the write fails
AwWrite(ok) ==
    /\ aw_pc = "write"
    /\ LET written == Len(aw_fs[WriterTarget].data)
       IN IF ~ok
          THEN /\ aw_pc' = "done"
               /\ aw_ret' = "Err_Io"
               /\ UNCHANGED aw_fs
          ELSE /\ aw_fs' = [aw_fs EXCEPT ![WriterTarget].data = Append(@, NewReport[written + 1])]
               /\ aw_pc' = IF written + 1 < Len(NewReport) THEN "write"
                           ELSE IF aw_kind = "atomic_write" THEN "sync" ELSE "done"
               /\ aw_ret' = IF written + 1 = Len(NewReport) /\ aw_kind # "atomic_write"
                            THEN "Ok" ELSE aw_ret
    /\ UNCHANGED <<aw_kind, aw_path, aw_old>>
    /\ UNCHANGED <<budgetVars, poolVars, callerVars, wpVars, prVars, statsVars, anVars,
                   wnVars, permVars, ckVars, sqVars, schVars, tpVars, rdVars, mmVars,
                   sizeVars, edVars, runVars, repVars, errVars>>

\* file.sync_all(), main.rs lines 55-56
AwSync(ok) ==
    /\ aw_pc = "sync"
    /\ aw_pc' = IF ok THEN "rename" ELSE "done"
    /\ aw_ret' = IF ok THEN aw_ret ELSE "Err_Io"
    /\ UNCHANGED <<aw_kind, aw_path, aw_old, aw_fs>>
    /\ UNCHANGED <<budgetVars, poolVars, callerVars, wpVars, prVars, statsVars, anVars,
                   wnVars, permVars, ckVars, sqVars, schVars, tpVars, rdVars, mmVars,
                   sizeVars, edVars, runVars, repVars, errVars>>

\* std::fs::rename(&temp_path, path), main.rs lines 59-62; renaming a file
\* to itself changes nothing
AwRename(ok) ==
    /\ aw_pc = "rename"
    /\ aw_pc' = "done"
    /\ aw_ret' = IF ok THEN "Ok" ELSE "Err_Io"
    /\ aw_fs' = IF ok /\ WriterTarget # aw_path
                THEN [aw_fs EXCEPT ![aw_path] = aw_fs[WriterTarget],
                                   ![WriterTarget] = NoFile]
                ELSE aw_fs
    /\ UNCHANGED <<aw_kind, aw_path, aw_old>>
    /\ UNCHANGED <<budgetVars, poolVars, callerVars, wpVars, prVars, statsVars, anVars,
                   wnVars, permVars, ckVars, sqVars, schVars, tpVars, rdVars, mmVars,
                   sizeVars, edVars, runVars, repVars, errVars>>

WriterNext ==
    \/ \E kind \in {"atomic_write", "write_report", "write"}, path \in OutputPaths,
          old \in {NoFile, FileOf(OldReport)} : AwStart(kind, path, old)
    \/ \E ok \in BOOLEAN : AwCreate(ok)
    \/ \E ok \in BOOLEAN : AwWrite(ok)
    \/ \E ok \in BOOLEAN : AwSync(ok)
    \/ \E ok \in BOOLEAN : AwRename(ok)

(***************************************************************************)
(* src/src/scheduler.rs: Scheduler.  schedule and schedule_with_deadline   *)
(* take &self and run takes &mut self, so no task is scheduled while run   *)
(* is in progress.                                                         *)
(***************************************************************************)
\* enum Priority, lines 22-27: Low, Normal, High (Critical is not used by
\* the model)
Priorities == 0..2

\* the readings of Instant::now() in the model
LastInstant == 1

\* config.default_timeout, in the ticks of the model's clock
DefaultTimeout == 2

SchedulerInit ==
    /\ sc_pc = "none"
    /\ sc_max = 0
    /\ sc_clock = 0
    /\ sc_tasks = <<>>
    /\ sc_queue = {}
    /\ sc_running = {}
    /\ sc_order = <<>>
    /\ sc_chan = <<>>

\* Ord for ScheduledTask, lines 56-75 (every task of the model has a
\* deadline, as schedule and schedule_with_deadline give it one)
TaskCmp(a, b) ==
    IF a.priority # b.priority
    THEN (IF a.priority < b.priority THEN "Less" ELSE "Greater")
    ELSE IF a.deadline # b.deadline
    THEN (IF a.deadline < b.deadline THEN "Greater" ELSE "Less")
    ELSE IF a.created_at = b.created_at THEN "Equal"
    ELSE IF a.created_at < b.created_at THEN "Greater" ELSE "Less"

\* BinaryHeap::pop: a greatest element; which one of several equal
\* elements is not specified
HeapMax(tasks, queue) ==
    {t \in queue : \A u \in queue : TaskCmp(tasks[t], tasks[u]) # "Less"}

\* the loop test with <= in place of <
HasCapacity_Le(running, max) == Cardinality(running) <= max

\* try_schedule_tasks, line 171: running.len() < self.config.max_concurrent
HasCapacity(running, max) == Cardinality(running) < max

\* try_schedule_tasks, lines 168-189: the states the loop can end in
RECURSIVE try_schedule_tasks(_, _, _, _, _)
try_schedule_tasks(tasks, max, queue, running, order) ==
    IF HasCapacity(running, max) /\ queue # {}
    THEN UNION {try_schedule_tasks(tasks, max, queue \ {t}, running \cup {t},
                                   Append(order, t)) : t \in HeapMax(tasks, queue)}
    ELSE {[queue |-> queue, running |-> running, order |-> order]}

\* Scheduler::new, lines 118-128
ScNew(max_concurrent) ==
    /\ sc_pc = "none"
    /\ sc_pc' = "idle"
    /\ sc_max' = max_concurrent
    /\ UNCHANGED <<sc_clock, sc_tasks, sc_queue, sc_running, sc_order, sc_chan>>
    /\ UNCHANGED <<budgetVars, poolVars, callerVars, wpVars, prVars, statsVars, anVars,
                   wnVars, permVars, ckVars, tpVars, rdVars, mmVars, sizeVars, edVars,
                   runVars, repVars, errVars, awVars, sqVars>>

\* time passes between two calls
ScTick ==
    /\ sc_pc = "idle"
    /\ sc_clock < LastInstant
    /\ sc_clock' = sc_clock + 1
    /\ UNCHANGED <<sc_pc, sc_max, sc_tasks, sc_queue, sc_running, sc_order, sc_chan>>
    /\ UNCHANGED <<budgetVars, poolVars, callerVars, wpVars, prVars, statsVars, anVars,
                   wnVars, permVars, ckVars, tpVars, rdVars, mmVars, sizeVars, edVars,
                   runVars, repVars, errVars, awVars, sqVars>>

\* Scheduler::schedule, lines 131-144 (deadline = now + default_timeout),
\* and schedule_with_deadline, lines 147-165 (the deadline is an argument):
\* the task is pushed and try_schedule_tasks runs
ScSchedule(priority, deadline) ==
    /\ sc_pc = "idle"
    /\ Len(sc_tasks) < MaxSchedTasks
    /\ LET id == Len(sc_tasks) + 1
           tasks == Append(sc_tasks, [priority |-> priority, created_at |-> sc_clock,
                                      deadline |-> deadline])
       IN /\ sc_tasks' = tasks
          /\ \E out \in try_schedule_tasks(tasks, sc_max, sc_queue \cup {id},
                                           sc_running, sc_order) :
                /\ sc_queue' = out.queue
                /\ sc_running' = out.running
                /\ sc_order' = out.order
    /\ UNCHANGED <<sc_pc, sc_max, sc_clock, sc_chan>>
    /\ UNCHANGED <<budgetVars, poolVars, callerVars, wpVars, prVars, statsVars, anVars,
                   wnVars, permVars, ckVars, tpVars, rdVars, mmVars, sizeVars, edVars,
                   runVars, repVars, errVars, awVars, sqVars>>

\* Scheduler::run is called, line 192
ScRun ==
    /\ sc_pc = "idle"
    /\ sc_pc' = "select"
    /\ UNCHANGED <<sc_max, sc_clock, sc_tasks, sc_queue, sc_running, sc_order, sc_chan>>
    /\ UNCHANGED <<budgetVars, poolVars, callerVars, wpVars, prVars, statsVars, anVars,
                   wnVars, permVars, ckVars, tpVars, rdVars, mmVars, sizeVars, edVars,
                   runVars, repVars, errVars, awVars, sqVars>>

\* run, lines 202-207: a future of the running set finishes; the wrapper of
\* lines 176-180 has sent the task's result to the completion channel and
\* yields Ok(()), and try_schedule_tasks runs
ScRunningNext(t, result) ==
    /\ sc_pc = "select"
    /\ t \in sc_running
    /\ sc_chan' = Append(sc_chan, result)
    /\ \E out \in try_schedule_tasks(sc_tasks, sc_max, sc_queue, sc_running \ {t},
                                     sc_order) :
          /\ sc_queue' = out.queue
          /\ sc_running' = out.running
          /\ sc_order' = out.order
    /\ UNCHANGED <<sc_pc, sc_max, sc_clock, sc_tasks>>
    /\ UNCHANGED <<budgetVars, poolVars, callerVars, wpVars, prVars, statsVars, anVars,
                   wnVars, permVars, ckVars, tpVars, rdVars, mmVars, sizeVars, edVars,
                   runVars, repVars, errVars, awVars, sqVars>>

\* run, lines 195-200: a result arrives on completion_rx; an Err is
\* recorded, and try_schedule_tasks runs
ScCompletionRecv ==
    /\ sc_pc = "select"
    /\ sc_chan # <<>>
    /\ sc_chan' = Tail(sc_chan)
    /\ stats_errors' = IF Head(sc_chan) = "Ok" THEN stats_errors
                       ELSE Append(stats_errors, Head(sc_chan))
    /\ \E out \in try_schedule_tasks(sc_tasks, sc_max, sc_queue, sc_running, sc_order) :
          /\ sc_queue' = out.queue
          /\ sc_running' = out.running
          /\ sc_order' = out.order
    /\ UNCHANGED <<sc_pc, sc_max, sc_clock, sc_tasks>>
    /\ UNCHANGED <<stats_files, stats_size, stats_csize, stats_methods, stats_dist>>
    /\ UNCHANGED <<budgetVars, anVars, wnVars, permVars, ckVars, poolVars, callerVars,
                   wpVars, prVars, tpVars, rdVars, mmVars, sizeVars, edVars, runVars,
                   repVars, errVars, awVars, sqVars>>

\* the Sender handles of the completion channel: the scheduler's own
\* completion_tx (line 112, kept for the scheduler's whole life) and one
\* clone in every wrapper future of the running set (line 175)
CompletionSenders == 1 + Cardinality(sc_running)

\* completion_rx.recv() yields None, line 195: the channel is empty and
\* every Sender was dropped
RecvIsNone == sc_chan = <<>> /\ CompletionSenders = 0

\* run, line 209: `else => break` is taken when both branches of select! are
\* disabled, the receive by None and the running set by being empty
SelectElse == sc_pc = "select" /\ RecvIsNone /\ sc_running = {}

SchedulerNext ==
    \/ \E max_concurrent \in 1..MaxConcurrent : ScNew(max_concurrent)
    \/ ScTick
    \/ \E priority \in Priorities,
          deadline \in {sc_clock + DefaultTimeout, LastInstant + DefaultTimeout} :
          ScSchedule(priority, deadline)
    \/ ScRun
    \/ \E t \in sc_running, result \in {"Ok", "Err_TaskError"} : ScRunningNext(t, result)
    \/ ScCompletionRecv

(***************************************************************************)
(* src/src/thread_safety.rs: SafeQueue                                     *)
(***************************************************************************)
\* SafeQueue::new(capacity), lines 104-111
SafeQueueInit ==
    /\ sq_items = <<>>
    /\ sq_permits = SafeQueueCapacity
    /\ sq_pushed = 0
    /\ sq_popped = <<>>
    /\ sq_ret = "none"

\* SafeQueue::push, lines 113-126: the permit acquire() returns is a
\* temporary and is given back at the end of the statement; the items are
\* numbered in the order push is called
SqPush ==
    /\ sq_permits > 0
    /\ sq_pushed < MaxPushes
    /\ sq_pushed' = sq_pushed + 1
    /\ IF Len(sq_items) >= SafeQueueCapacity
       THEN /\ sq_permits' = sq_permits + 1
            /\ sq_ret' = "Err_ThreadSafety"
            /\ UNCHANGED sq_items
       ELSE /\ sq_items' = Append(sq_items, sq_pushed + 1)
            /\ sq_ret' = "Ok"
            /\ UNCHANGED sq_permits
    /\ UNCHANGED sq_popped
    /\ UNCHANGED <<budgetVars, poolVars, callerVars, wpVars, prVars, statsVars, anVars,
                   wnVars, permVars, ckVars, tpVars, rdVars, mmVars, sizeVars, edVars,
                   runVars, repVars, errVars, awVars, schVars>>

\* SafeQueue::try_pop, lines 128-135: Vec::pop takes the last item
SqTryPop ==
    /\ sq_items # <<>>
    /\ sq_items' = SubSeq(sq_items, 1, Len(sq_items) - 1)
    /\ sq_popped' = Append(sq_popped, sq_items[Len(sq_items)])
    /\ sq_permits' = sq_permits + 1
    /\ UNCHANGED <<sq_pushed, sq_ret>>
    /\ UNCHANGED <<budgetVars, poolVars, callerVars, wpVars, prVars, statsVars, anVars,
                   wnVars, permVars, ckVars, tpVars, rdVars, mmVars, sizeVars, edVars,
                   runVars, repVars, errVars, awVars, schVars>>

SafeQueueNext ==
    \/ SqPush
    \/ SqTryPop

(***************************************************************************)
(* src/src/analyzer/chunks.rs: the chunk processor and its BufferPool, a   *)
(* tokio Semaphore of buffer_count permits. process_chunk is an async fn   *)
(* called by several tasks at once; each position of ck_pc is one step of  *)
(* a call.                                                                 *)
(***************************************************************************)
ChunkCallers == 1..MaxChunkCallers

ChunkLens == {1, 2}

NoChunk == [len |-> 0, zip |-> FALSE]

ChunksInit ==
    /\ ck_count = 0
    /\ ck_permits = 0
    /\ ck_pc = [c \in ChunkCallers |-> "idle"]
    /\ ck_chunk = [c \in ChunkCallers |-> NoChunk]
    /\ ck_ret = [c \in ChunkCallers |-> "none"]
    /\ ck_calls = 0
    /\ ck_stats = [active_threads |-> 0, processed_chunks |-> 0, total_bytes |-> 0]

\* ChunkProcessor::new, lines 91-97, with BufferPool::new, lines 62-67:
\* Semaphore::new(config.buffer_count)
CkNew(buffer_count) ==
    /\ ck_count = 0
    /\ ck_count' = buffer_count
    /\ ck_permits' = buffer_count
    /\ UNCHANGED <<ck_pc, ck_chunk, ck_ret, ck_calls, ck_stats>>
    /\ UNCHANGED <<budgetVars, poolVars, callerVars, wpVars, prVars, statsVars, anVars,
                   wnVars, permVars, rdVars, mmVars, sizeVars, edVars, runVars, tpVars,
                   repVars, errVars, awVars, schVars, sqVars>>

\* process_chunk, line 100: the call starts, active_threads.fetch_add(1)
CkEnter(c, len, zip) ==
    /\ ck_count > 0
    /\ ck_pc[c] = "idle"
    /\ ck_calls < MaxChunkCalls
    /\ ck_calls' = ck_calls + 1
    /\ ck_chunk' = [ck_chunk EXCEPT ![c] = [len |-> len, zip |-> zip]]
    /\ ck_stats' = [ck_stats EXCEPT !.active_threads = FetchAdd(@, 1)]
    /\ ck_pc' = [ck_pc EXCEPT ![c] = "acquire"]
    /\ UNCHANGED <<ck_count, ck_permits, ck_ret>>
    /\ UNCHANGED <<budgetVars, poolVars, callerVars, wpVars, prVars, statsVars, anVars,
                   wnVars, permVars, rdVars, mmVars, sizeVars, edVars, runVars, tpVars,
                   repVars, errVars, awVars, schVars, sqVars>>

\* BufferPool::acquire, line 70: self.buffers.acquire().await completes when a
\* permit is available and takes it; the value is a SemaphorePermit
CkAcquirePermit(c) ==
    /\ ck_pc[c] = "acquire"
    /\ ck_permits > 0
    /\ ck_permits' = ck_permits - 1
    /\ ck_pc' = [ck_pc EXCEPT ![c] = "permit"]
    /\ UNCHANGED <<ck_count, ck_chunk, ck_ret, ck_calls, ck_stats>>
    /\ UNCHANGED <<budgetVars, poolVars, callerVars, wpVars, prVars, statsVars, anVars,
                   wnVars, permVars, rdVars, mmVars, sizeVars, edVars, runVars, tpVars,
                   repVars, errVars, awVars, schVars, sqVars>>

\* BufferPool::acquire, lines 70-76: the SemaphorePermit is a temporary of the
\* statement `self.buffers.acquire().await.map_err(..)?;` and is dropped at
\* its end, and dropping a permit gives it back to the semaphore; then
\* Ok(vec![0; buffer_size]) is returned and the caller holds a buffer
CkDropPermit(c) ==
    /\ ck_pc[c] = "permit"
    /\ ck_permits' = ck_permits + 1
    /\ ck_pc' = [ck_pc EXCEPT ![c] = "holding"]
    /\ UNCHANGED <<ck_count, ck_chunk, ck_ret, ck_calls, ck_stats>>
    /\ UNCHANGED <<budgetVars, poolVars, callerVars, wpVars, prVars, statsVars, anVars,
                   wnVars, permVars, rdVars, mmVars, sizeVars, edVars, runVars, tpVars,
                   repVars, errVars, awVars, schVars, sqVars>>

\* process_chunk, lines 103-144: the chunk is opened as a ZIP archive and its
\* entries are listed, an Err if it is none; the buffer is still held
CkScan(c) ==
    /\ ck_pc[c] = "holding"
    /\ ck_ret' = [ck_ret EXCEPT ![c] = IF ck_chunk[c].zip THEN "Ok" ELSE "Err_Zip"]
    /\ ck_pc' = [ck_pc EXCEPT ![c] = "scanned"]
    /\ UNCHANGED <<ck_count, ck_permits, ck_chunk, ck_calls, ck_stats>>
    /\ UNCHANGED <<budgetVars, poolVars, callerVars, wpVars, prVars, statsVars, anVars,
                   wnVars, permVars, rdVars, mmVars, sizeVars, edVars, runVars, tpVars,
                   repVars, errVars, awVars, schVars, sqVars>>

\* process_chunk, line 146, BufferPool::release, lines 79-81: the buffer is
\* dropped and add_permits(1) is called
CkRelease(c) ==
    /\ ck_pc[c] = "scanned"
    /\ ck_permits' = ck_permits + 1
    /\ ck_pc' = [ck_pc EXCEPT ![c] = "released"]
    /\ UNCHANGED <<ck_count, ck_chunk, ck_ret, ck_calls, ck_stats>>
    /\ UNCHANGED <<budgetVars, poolVars, callerVars, wpVars, prVars, statsVars, anVars,
                   wnVars, permVars, rdVars, mmVars, sizeVars, edVars, runVars, tpVars,
                   repVars, errVars, awVars, schVars, sqVars>>

\* process_chunk, lines 147-151: the counters, then the result is returned
CkReturn(c) ==
    /\ ck_pc[c] = "released"
    /\ ck_stats' = [active_threads |-> ck_stats.active_threads - 1,
                    processed_chunks |-> FetchAdd(ck_stats.processed_chunks, 1),
                    total_bytes |-> FetchAdd(ck_stats.total_bytes, ck_chunk[c].len)]
    /\ ck_pc' = [ck_pc EXCEPT ![c] = "idle"]
    /\ UNCHANGED <<ck_count, ck_permits, ck_chunk, ck_ret, ck_calls>>
    /\ UNCHANGED <<budgetVars, poolVars, callerVars, wpVars, prVars, statsVars, anVars,
                   wnVars, permVars, rdVars, mmVars, sizeVars, edVars, runVars, tpVars,
                   repVars, errVars, awVars, schVars, sqVars>>

\* the callers that hold a buffer of the pool
ChunkBuffersHeld == {c \in ChunkCallers : ck_pc[c] \in {"holding", "scanned"}}

ChunksNext ==
    \/ \E buffer_count \in 1..MaxBufferCount : CkNew(buffer_count)
    \/ \E c \in ChunkCallers, len \in ChunkLens, zip \in BOOLEAN : CkEnter(c, len, zip)
    \/ \E c \in ChunkCallers : CkAcquirePermit(c)
    \/ \E c \in ChunkCallers : CkDropPermit(c)
    \/ \E c \in ChunkCallers : CkScan(c)
    \/ \E c \in ChunkCallers : CkRelease(c)
    \/ \E c \in ChunkCallers : CkReturn(c)

(***************************************************************************)
(* src/src/sync.rs: the permits of SharedState, a tokio Semaphore of       *)
(* max_concurrent permits.  acquire_permit is an async fn that several     *)
(* tasks call; release_permit is called for a permit acquired before.      *)
(***************************************************************************)
PermitCallers == 1..MaxPermitCallers

PermitsInit ==
    /\ sp_max = 0
    /\ sp_permits = 0
    /\ sp_pc = [c \in PermitCallers |-> "idle"]
    /\ sp_acquired = 0
    /\ sp_released = 0

\* SharedState::new, lines 133-143: Semaphore::new(max_concurrent)
SpNew(max_concurrent) ==
    /\ sp_max = 0
    /\ sp_max' = max_concurrent
    /\ sp_permits' = max_concurrent
    /\ UNCHANGED <<sp_pc, sp_acquired, sp_released>>
    /\ UNCHANGED <<budgetVars, poolVars, callerVars, wpVars, prVars, statsVars, anVars,
                   wnVars, rdVars, mmVars, sizeVars, edVars, runVars, tpVars, repVars,
                   errVars, awVars, schVars, sqVars, ckVars>>

\* acquire_permit, lines 198-200: self.semaphore.acquire().await completes
\* when a permit is available and takes it; the value is a SemaphorePermit
SpAcquirePermit(c) ==
    /\ sp_max > 0
    /\ sp_pc[c] = "idle"
    /\ sp_acquired + Cardinality({d \in PermitCallers : sp_pc[d] = "permit"})
           < MaxPermitCalls
    /\ sp_permits > 0
    /\ sp_permits' = sp_permits - 1
    /\ sp_pc' = [sp_pc EXCEPT ![c] = "permit"]
    /\ UNCHANGED <<sp_max, sp_acquired, sp_released>>
    /\ UNCHANGED <<budgetVars, poolVars, callerVars, wpVars, prVars, statsVars, anVars,
                   wnVars, rdVars, mmVars, sizeVars, edVars, runVars, tpVars, repVars,
                   errVars, awVars, schVars, sqVars, ckVars>>

\* acquire_permit, lines 201-202: the SemaphorePermit is a temporary of the
\* statement ending in `?;` and is dropped at its end, which gives the permit
\* back to the semaphore; then Ok(()) is returned
SpAcquireReturn(c) ==
    /\ sp_pc[c] = "permit"
    /\ sp_permits' = sp_permits + 1
    /\ sp_acquired' = sp_acquired + 1
    /\ sp_pc' = [sp_pc EXCEPT ![c] = "idle"]
    /\ UNCHANGED <<sp_max, sp_released>>
    /\ UNCHANGED <<budgetVars, poolVars, callerVars, wpVars, prVars, statsVars, anVars,
                   wnVars, rdVars, mmVars, sizeVars, edVars, runVars, tpVars, repVars,
                   errVars, awVars, schVars, sqVars, ckVars>>

\* release_permit, lines 206-208, called for a permit that acquire_permit
\* returned and that was not released yet: add_permits(1)
SpRelease ==
    /\ sp_released < sp_acquired
    /\ sp_permits' = sp_permits + 1
    /\ sp_released' = sp_released + 1
    /\ UNCHANGED <<sp_max, sp_pc, sp_acquired>>
    /\ UNCHANGED <<budgetVars, poolVars, callerVars, wpVars, prVars, statsVars, anVars,
                   wnVars, rdVars, mmVars, sizeVars, edVars, runVars, tpVars, repVars,
                   errVars, awVars, schVars, sqVars, ckVars>>

PermitsNext ==
    \/ \E max_concurrent \in 1..MaxPermits : SpNew(max_concurrent)
    \/ \E c \in PermitCallers : SpAcquirePermit(c)
    \/ \E c \in PermitCallers : SpAcquireReturn(c)
    \/ SpRelease

(***************************************************************************)
(* src/src/worker/pool.rs: WorkerPool::new                                 *)
(***************************************************************************)
\* const MAX_THREADS, line 11
MAX_THREADS == 16

\* Option<usize>: None, Some(n)
None == [some |-> FALSE, n |-> 0]
Some(n) == [some |-> TRUE, n |-> n]

ThreadCountOptions == {None} \cup {Some(n) : n \in 0..MaxThreadCount}

\* std::cmp::min
Min(a, b) == IF a <= b THEN a ELSE b

\* WorkerPool::new, lines 40-56: config.thread_count, or without one the
\* smaller of num_cpus::get() and MAX_THREADS, is given to
\* ThreadPoolBuilder::num_threads, for which 0 means rayon's default, the
\* number of logical CPUs (RAYON_NUM_THREADS not set)
thread_count(request, cpus) ==
    LET requested == IF request.some THEN request.n ELSE Min(cpus, MAX_THREADS)
    IN IF requested = 0 THEN cpus ELSE requested

WorkerNewInit ==
    /\ wn_request = None
    /\ wn_cpus = 0
    /\ wn_threads = 0

\* WorkerPool::new(config) on a machine with `cpus` logical CPUs, lines 38-66
WpNew(request, cpus) ==
    /\ wn_threads = 0
    /\ wn_request' = request
    /\ wn_cpus' = cpus
    /\ wn_threads' = thread_count(request, cpus)
    /\ UNCHANGED <<budgetVars, poolVars, callerVars, wpVars, prVars, statsVars, anVars,
                   rdVars, mmVars, sizeVars, edVars, runVars, tpVars, repVars, errVars,
                   awVars, schVars, sqVars, ckVars, permVars>>

WorkerNewNext == \E request \in ThreadCountOptions, cpus \in 1..MaxCpus : WpNew(request, cpus)

(***************************************************************************)
(* src/src/analyzer/zip.rs: ParallelZipAnalyzer::analyze                   *)
(***************************************************************************)
AnalyzeInit ==
    /\ an_pc = "idle"
    /\ an_file_size = 0
    /\ an_offset = 0
    /\ an_bytes_read = 0
    /\ an_chunks = 0
    /\ an_estimate = None
    /\ an_ret = "none"

\* ChunkConfig.chunk_size, the length of `buffer` (line 61), scaled down
AnChunkSize == 3

\* `a / b` on u64: Some(quotient), or None for the panic "attempt to divide
\* by zero"
DivU64(a, b) == IF b = 0 THEN None ELSE Some(a \div b)

\* line 55: `let (progress_tx, _) = mpsc::channel(100)` drops the Receiver at
\* the end of the statement, so every progress_tx.send(..) is an Err
ProgressReceiverAlive == FALSE

\* lines 48-63: the file is opened and its length read
AnAnalyze(file_size, io_ok) ==
    /\ an_pc = "idle"
    /\ an_file_size' = file_size
    /\ an_pc' = IF io_ok THEN "loop" ELSE "done"
    /\ an_ret' = IF io_ok THEN "none" ELSE "Err_Io"
    /\ UNCHANGED <<an_offset, an_bytes_read, an_chunks, an_estimate>>
    /\ UNCHANGED <<budgetVars, poolVars, callerVars, wpVars, prVars, statsVars, rdVars,
                   mmVars, sizeVars, edVars, runVars, tpVars, repVars, errVars, awVars,
                   schVars, sqVars, ckVars, permVars, wnVars>>

\* line 65, `while current_offset < file_size`; control_tx sends nothing, so
\* the signal of lines 67-81 is Continue
AnLoop ==
    /\ an_pc = "loop"
    /\ an_pc' = IF an_offset < an_file_size THEN "read" ELSE "merge"
    /\ UNCHANGED <<an_file_size, an_offset, an_bytes_read, an_chunks, an_estimate, an_ret>>
    /\ UNCHANGED <<budgetVars, poolVars, callerVars, wpVars, prVars, statsVars, rdVars,
                   mmVars, sizeVars, edVars, runVars, tpVars, repVars, errVars, awVars,
                   schVars, sqVars, ckVars, permVars, wnVars>>

\* lines 83-91: file.read(&mut buffer); 0 bytes end the loop
AnRead(bytes_read, io_ok) ==
    /\ an_pc = "read"
    /\ an_bytes_read' = IF io_ok THEN bytes_read ELSE an_bytes_read
    /\ an_pc' = IF ~io_ok THEN "done" ELSE IF bytes_read = 0 THEN "merge" ELSE "process"
    /\ an_ret' = IF io_ok THEN an_ret ELSE "Err_Io"
    /\ UNCHANGED <<an_file_size, an_offset, an_chunks, an_estimate>>
    /\ UNCHANGED <<budgetVars, poolVars, callerVars, wpVars, prVars, statsVars, rdVars,
                   mmVars, sizeVars, edVars, runVars, tpVars, repVars, errVars, awVars,
                   schVars, sqVars, ckVars, permVars, wnVars>>

\* line 94: process_chunk(chunk, current_offset).await?
AnProcessChunk(ok) ==
    /\ an_pc = "process"
    /\ an_pc' = IF ok THEN "progress" ELSE "done"
    /\ an_ret' = IF ok THEN an_ret ELSE "Err_Chunk"
    /\ UNCHANGED <<an_file_size, an_offset, an_bytes_read, an_chunks, an_estimate>>
    /\ UNCHANGED <<budgetVars, poolVars, callerVars, wpVars, prVars, statsVars, rdVars,
                   mmVars, sizeVars, edVars, runVars, tpVars, repVars, errVars, awVars,
                   schVars, sqVars, ckVars, permVars, wnVars>>

\* line 105, after elapsed_secs == start_time.elapsed().as_secs()
estimated_remaining_secs(file_size, current_offset, elapsed_secs) ==
    DivU64((file_size - current_offset) * elapsed_secs, current_offset)

\* lines 97-112: the ProgressUpdate is built and sent, the result pushed and
\* current_offset advanced
AnProgress(elapsed_secs) ==
    /\ an_pc = "progress"
    /\ LET estimate == estimated_remaining_secs(an_file_size, an_offset, elapsed_secs)
           sent == estimate # None /\ ProgressReceiverAlive
       IN /\ an_estimate' = estimate
          /\ an_ret' = IF estimate = None THEN "Panic_DivideByZero"
                       ELSE IF ~ProgressReceiverAlive THEN "Err_Progress"
                       ELSE an_ret
          /\ an_pc' = IF sent THEN "loop" ELSE "done"
          /\ an_chunks' = IF sent THEN an_chunks + 1 ELSE an_chunks
          /\ an_offset' = IF sent THEN an_offset + an_bytes_read ELSE an_offset
    /\ UNCHANGED <<an_file_size, an_bytes_read>>
    /\ UNCHANGED <<budgetVars, poolVars, callerVars, wpVars, prVars, statsVars, rdVars,
                   mmVars, sizeVars, edVars, runVars, tpVars, repVars, errVars, awVars,
                   schVars, sqVars, ckVars, permVars, wnVars>>

\* lines 115-119: merge_results of the chunks pushed, none of which holds a
\* fatal error here
AnMerge ==
    /\ an_pc = "merge"
    /\ an_pc' = "done"
    /\ an_ret' = "Ok"
    /\ UNCHANGED <<an_file_size, an_offset, an_bytes_read, an_chunks, an_estimate>>
    /\ UNCHANGED <<budgetVars, poolVars, callerVars, wpVars, prVars, statsVars, rdVars,
                   mmVars, sizeVars, edVars, runVars, tpVars, repVars, errVars, awVars,
                   schVars, sqVars, ckVars, permVars, wnVars>>

AnalyzeNext ==
    \/ \E file_size \in 0..MaxFileSize, io_ok \in BOOLEAN : AnAnalyze(file_size, io_ok)
    \/ AnLoop
    \/ \E bytes_read \in 0..Min(AnChunkSize, an_file_size - an_offset), io_ok \in BOOLEAN :
           AnRead(bytes_read, io_ok)
    \/ \E ok \in BOOLEAN : AnProcessChunk(ok)
    \/ \E elapsed_secs \in 0..MaxElapsedSecs : AnProgress(elapsed_secs)
    \/ AnMerge

Init ==
    /\ BudgetInit /\ PoolInit /\ CallerInit /\ WpInit /\ PrInit /\ StatsInit
    /\ ReaderInit /\ RunInit /\ TpInit /\ ReportInit
    /\ ErrorsInit /\ WriterInit /\ SchedulerInit /\ SafeQueueInit /\ ChunksInit
    /\ PermitsInit /\ WorkerNewInit /\ AnalyzeInit

SpecBudget == Init /\ [][BudgetNext]_vars

SpecTier == Init /\ [][TierNext]_vars

SpecPipeline == Init /\ [][PoolRunNext \/ ProcessorNext]_vars

SpecReader == Init /\ [][ReaderNext]_vars

SpecRun == Init /\ [][RunNext]_vars

SpecThreadPool == Init /\ [][ThreadPoolNext]_vars

SpecReport == Init /\ [][ReportNext]_vars

SpecErrors == Init /\ [][ErrorsNext]_vars

SpecWriter == Init /\ [][WriterNext]_vars

\* the scheduler and the queue are exercised one at a time
DispatchNext ==
    \/ sq_pushed = 0 /\ SchedulerNext
    \/ sc_pc = "none" /\ SafeQueueNext

SpecDispatch == Init /\ [][DispatchNext]_vars

SpecChunks == Init /\ [][ChunksNext]_vars

SpecPermits == Init /\ [][PermitsNext]_vars

SpecWorkerNew == Init /\ [][WorkerNewNext]_vars

SpecAnalyze == Init /\ [][AnalyzeNext]_vars

\* run keeps being polled: a future of the running set that can finish does,
\* and a result in the completion channel is received
SpecDispatchFair ==
    /\ SpecDispatch
    /\ WF_vars(\E t \in sc_running, result \in {"Ok", "Err_TaskError"} :
                   ScRunningNext(t, result))
    /\ WF_vars(ScCompletionRecv)

\* every worker thread keeps being scheduled and every task returns; the
\* owner's shutdown and drop go on whenever they are not waiting
SpecThreadPoolFair ==
    /\ SpecThreadPool
    /\ \A w \in PoolThreads : WF_vars(TpWorkerNext(w))
    /\ WF_vars(TpShutdownSend)
    /\ WF_vars(TpJoin)

(***************************************************************************)
(* Properties                                                              *)
(***************************************************************************)

\* C1: under every interleaving of get_buffer and return_buffer calls the
\* bytes accounted as allocated (total_size) never exceed max_size.
C1_TotalWithinBudget == total_size <= PoolMaxSize

\* C2: acquire on a tier with no free buffer waits for a lease to come back
\* (or for cancellation); it never returns an error because the tier is
\* empty.
C2_AcquireNeverFailsEmpty == acq_result # "NoBufferAvailable"

\* C3: once WorkerPool::process_entries has returned, every Small and Medium
\* buffer acquired for a task is back: each tier's free count equals its slot
\* count.
C3_AllBuffersReturned ==
    wp_state = "done" =>
        Len(small_pool) = SmallCount /\ Len(medium_pool) = MediumCount

\* C4: release is idempotent: releasing a lease that was already released
\* leaves the free lists as they are.
C4_ReleaseIdempotent ==
    [][\A i \in 1..MaxLeases :
          (CallerRelease(i) /\ leases[i].releases >= 1)
              => UNCHANGED <<small_pool, medium_pool>>]_vars

\* the bytes the decode step yields for an entry (entry.rs, lines 45-75):
\* file_data itself for Store, the decoder's output for Deflate
DecodedBytes(e) == IF e.method = 0 THEN e.file_data ELSE Inflate(e.file_data).out

DecodedLen(e) == Len(DecodedBytes(e))
DecodedCrc(e) == Crc32(DecodedBytes(e))
DecodedLens == SubSeq([id \in EntryIds |-> DecodedLen(Catalog[id])], 1, Len(Catalog))
DecodedCrcs == SubSeq([id \in EntryIds |-> DecodedCrc(Catalog[id])], 1, Len(Catalog))

\* C5: every entry whose decode step reports success has as many decoded
\* bytes as its claimed uncompressed size, on both processing paths
\* (ZipEntry::process under the WorkerPool, Processor::process_entry).
C5_SuccessLengthMatches ==
    /\ \A i \in 1..Len(wp_outcome) :
          wp_outcome[i] = "Ok" =>
              DecodedLens[wp_entries[i]] = Catalog[wp_entries[i]].uncompressed_size
    /\ \A i \in 1..Len(pr_results) :
          pr_results[i] = "Ok" =>
              DecodedLens[pr_entries[i]] = Catalog[pr_entries[i]].uncompressed_size

C7_UnsupportedIsSkipped ==
    (/\ wp_state = "done"
     /\ \A i \in 1..Len(wp_outcome) :
           wp_outcome[i] \in {"Ok", "UnsupportedMethod"})
        => wp_ret = "Ok"

\* C8: an entry-level failure (size mismatch, CRC mismatch, decode error)
\* never aborts the run: a run that ended with such failures among its
\* entries still returns Ok, on both processing paths.
C8_EntryFailureDoesNotAbort ==
    /\ (/\ wp_state = "done"
         /\ \A i \in 1..Len(wp_outcome) :
               wp_outcome[i] \in {"Ok", "Crc32Mismatch", "Io"})
            => wp_ret = "Ok"
    /\ (/\ pr_state = "done"
         /\ pr_rx_alive
         /\ pr_results # <<>>
         /\ \A i \in 1..Len(pr_results) : pr_results[i] # "pending")
            => pr_ret = "Ok"

RECURSIVE SumOver(_, _)
\* the sum of f over the indices in S
SumOver(f, S) ==
    IF S = {} THEN 0
    ELSE LET i == CHOOSE x \in S : TRUE IN f[i] + SumOver(f, S \ {i})

\* C9: whenever no worker is inside process_entry, the counters equal the
\* sums over the entries processed so far, failed ones included: files is
\* their number, total size and compressed size the sums of their claimed
\* sizes.
C9_CountersAreSums ==
    (\A w \in Workers : pr_worker[w] = Idle) =>
        /\ stats_files = Cardinality(pr_claimed)
        /\ stats_size =
              SumOver([i \in pr_claimed |-> Catalog[pr_entries[i]].uncompressed_size],
                      pr_claimed)
        /\ stats_csize =
              SumOver([i \in pr_claimed |-> Catalog[pr_entries[i]].compressed_size],
                      pr_claimed)

\* a finished Processor run over two entries, one of which failed verification
C9_Witness ==
    /\ pr_state = "done"
    /\ pr_ret = "Ok"
    /\ Len(pr_entries) = 2
    /\ stats_files = 2
    /\ \E i \in 1..2 : pr_results[i] = "SizeMismatch"
    /\ Len(stats_errors) >= 1

\* C10: reading the central directory returns Ok only with as many entries
\* as the EOCD declares and as the central directory holds records:
\* read_entries against the file it read, read_directory against
\* archive.len().
C10_CountMatchesDeclared ==
    /\ (rd_pc = "done" /\ rd_ret = "Ok") =>
           /\ Len(rd_entries) = rd_input.declared
           /\ Len(rd_entries) = rd_input.nrec
    /\ (dir_state = "done" /\ dir_ret = "Ok") => Cardinality(dir_entries) = dir_len

\* C11: the EOCD locator accepts a signature occurrence only when the comment
\* length it declares (bytes 20-21 of the record) equals the number of bytes
\* that follow the 22-byte record in the file; an occurrence whose declared
\* length differs is never the accepted position.
C11_AcceptedCommentLengthMatches ==
    rd_pc = "offset" =>
        from_le_bytes(SubSeq(rd_file, rd_position + 21, rd_position + 22))
            = Len(rd_file) - rd_position - 22

\* C12: on an archive whose EOCD has no comment (the record is exactly the
\* last 22 bytes of the file, a file that is only the record included),
\* locating the EOCD and opening the reader succeed: read_entries does not
\* fail, ZipReader::new over the memory map returns Ok.
C12_CommentlessArchiveOpens ==
    /\ (/\ rd_pc = "done" /\ rd_tx_alive
         /\ Len(rd_file) >= 22
         /\ SubSeq(rd_file, Len(rd_file) - 21, Len(rd_file) - 18)
                = END_OF_CENTRAL_DIR_SIGNATURE)
            => rd_ret = "Ok"
    /\ (/\ mm_pc # "idle"
         /\ Len(mm_map) >= 22
         /\ SubSeq(mm_map, Len(mm_map) - 21, Len(mm_map) - 18)
                = END_OF_CENTRAL_DIR_SIGNATURE)
            => mm_ret \notin {"Err_TooSmall", "Err_NotValid"}

\* C13: on every file without an EOCD record (no signature at a place where
\* 22 bytes remain), files shorter than 22 bytes included, the locator
\* returns the error value for "EOCD not found": it does not panic, compute
\* a position below zero or fail on a read outside the file.
C13_NoEocdIsNotFound ==
    (/\ rd_pc = "done"
     /\ ~\E i \in 0..(Len(rd_file) - 22) :
            SubSeq(rd_file, i + 1, i + 4) = END_OF_CENTRAL_DIR_SIGNATURE)
        => rd_ret = "Err_EndOfCentralDirectoryNotFound"

\* C14: size validation of an existing file of length L fails with
\* SizeLimit{size} exactly when L > 4 GiB (4 294 967 296 = 65536 * 65536
\* bytes), and then size = L; for every length up to and including 4 GiB it
\* succeeds.
C14_SizeLimitExactlyAbove4GiB ==
    sz_ret.kind \notin {"none", "Err_Io"} =>
        IF sz_len.hi > 65536 \/ (sz_len.hi = 65536 /\ sz_len.lo > 0)
        THEN sz_ret = [kind |-> "Err_SizeLimit", size |-> sz_len]
        ELSE sz_ret.kind = "Ok"

\* validate_size has refused a file of 4 GiB + 1 bytes, reporting that length
C14_Witness ==
    /\ sz_len = [hi |-> 65536, lo |-> 1]
    /\ sz_ret = [kind |-> "Err_SizeLimit", size |-> [hi |-> 65536, lo |-> 1]]

\* C15: the central directory parser decodes a 46-byte header by the
\* little-endian layout method 10-11, crc32 16-19, compressed size 20-23,
\* uncompressed size 24-27, name length n 28-29, extra length x 30-31,
\* comment length c 32-33, local header offset 42-45, name from 46, and moves
\* on by 46 + n + x + c: every entry read_entries pushes carries exactly
\* those fields of the record that starts at the cursor.
C15_FieldsDecodedByLayout ==
    [][(RdEntry /\ Len(rd_entries') > Len(rd_entries)) =>
          LET e == rd_entries'[Len(rd_entries')]
              n == from_le_bytes(SubSeq(rd_file, rd_cursor + 29, rd_cursor + 30))
              x == from_le_bytes(SubSeq(rd_file, rd_cursor + 31, rd_cursor + 32))
              c == from_le_bytes(SubSeq(rd_file, rd_cursor + 33, rd_cursor + 34))
          IN /\ e.method = MethodTryFrom(
                    from_le_bytes(SubSeq(rd_file, rd_cursor + 11, rd_cursor + 12)))
             /\ e.crc32 = SubSeq(rd_file, rd_cursor + 17, rd_cursor + 20)
             /\ e.compressed_size
                    = from_le_bytes(SubSeq(rd_file, rd_cursor + 21, rd_cursor + 24))
             /\ e.size = from_le_bytes(SubSeq(rd_file, rd_cursor + 25, rd_cursor + 28))
             /\ e.header_offset
                    = from_le_bytes(SubSeq(rd_file, rd_cursor + 43, rd_cursor + 46))
             /\ e.name = SubSeq(rd_file, rd_cursor + 47, rd_cursor + 46 + n)
             /\ rd_cursor' = rd_cursor + 46 + n + x + c]_vars

\* C16: a central directory record that does not fit in the bytes left (its
\* signature, header, name, extra field or comment runs past the end) makes
\* the parse fail with an error value: read_entries neither returns Ok with
\* the entries before it nor panics, and the iterator over the memory map
\* never panics.
C16_TruncatedRecordIsAnError ==
    /\ (/\ rd_pc = "done"
         /\ \E i \in 0..(Len(rd_file) - 22) :
                SubSeq(rd_file, i + 1, i + 4) = END_OF_CENTRAL_DIR_SIGNATURE
         /\ LET left == Len(rd_file) - rd_cursor
                n == from_le_bytes(SubSeq(rd_file, rd_cursor + 29, rd_cursor + 30))
                x == from_le_bytes(SubSeq(rd_file, rd_cursor + 31, rd_cursor + 32))
                c == from_le_bytes(SubSeq(rd_file, rd_cursor + 33, rd_cursor + 34))
            IN \/ left < 0
               \/ /\ left \in 1..3
                  /\ SubSeq(rd_file, rd_cursor + 1, Len(rd_file))
                         = SubSeq(CENTRAL_DIR_ENTRY_SIGNATURE, 1, left)
               \/ /\ left >= 4
                  /\ SubSeq(rd_file, rd_cursor + 1, rd_cursor + 4)
                         = CENTRAL_DIR_ENTRY_SIGNATURE
                  /\ (left < 46 \/ left < 46 + n + x + c))
            => rd_ret \notin {"Ok", "Err_TaskChannel", "Panic"}
    /\ mm_ret # "Panic"

\* C17: when read_entry_data reads a local file header whose method, CRC-32,
\* compressed size or uncompressed size differs from the entry's central
\* directory values, and the header's data-descriptor flag (bit 3) is clear,
\* the call fails: it never returns the entry's data as a success.
C17_DisagreeingHeaderIsRefused ==
    (/\ rd_pc = "data"
     /\ SubSeq(rd_file, rd_position + 1, rd_position + 4) = LOCAL_FILE_HEADER_SIGNATURE
     /\ Len(rd_file) >= rd_position + 30
     /\ (from_le_bytes(SubSeq(rd_file, rd_position + 7, rd_position + 8)) \div 8) % 2 = 0
     /\ \/ MethodTryFrom(from_le_bytes(SubSeq(rd_file, rd_position + 9, rd_position + 10)))
               # ed_entry.method
        \/ SubSeq(rd_file, rd_position + 15, rd_position + 18) # ed_entry.crc32
        \/ from_le_bytes(SubSeq(rd_file, rd_position + 19, rd_position + 22))
               # ed_entry.compressed_size
        \/ from_le_bytes(SubSeq(rd_file, rd_position + 23, rd_position + 26))
               # ed_entry.size)
        => ed_ret \notin {"Ok", "Panic"}

\* C18: for an entry whose local header and data lie in the file, with the
\* pool granting the buffer, read_entry_data returns the compressed_size
\* bytes at data_start = lfh_offset + 30 + n + x, n and x being bytes 26-27
\* and 28-29 of the local header.
C18_DataReadAtDataStart ==
    LET n == from_le_bytes(SubSeq(rd_file, rd_position + 27, rd_position + 28))
        x == from_le_bytes(SubSeq(rd_file, rd_position + 29, rd_position + 30))
        data_start == rd_position + 30 + n + x
    IN (/\ rd_pc = "data"
        /\ ed_ret # "Err_Memory"
        /\ SubSeq(rd_file, rd_position + 1, rd_position + 4)
               = LOCAL_FILE_HEADER_SIGNATURE
        /\ Len(rd_file) >= data_start + ed_entry.compressed_size)
           => /\ ed_ret = "Ok"
              /\ ed_data = SubSeq(rd_file, data_start + 1,
                                  data_start + ed_entry.compressed_size)
              /\ rd_cursor = data_start + ed_entry.compressed_size

\* C19: an archive without entries is processed successfully: handed the
\* empty entry list (with its empty data list), Processor::process_entries
\* completes; it does not panic.
C19_EmptyListCompletes ==
    (pr_state # "idle" /\ pr_entries = <<>>) => pr_state # "panicked"

\* C20: once the cancellation flag has been set while work remained (a chunk
\* in hand or still to come), the run ends cancelled: process_zip never
\* returns the analysis for a report.
C20_CancelledRunNeverReports ==
    (pz_pc = "done" /\ pz_work_at_cancel) => pz_ret # "Ok"

\* C21: whatever the order in which the workers recorded the entries, the
\* emitted report lists the method histogram in ascending order of the
\* numeric method code and the entry names in lexicographic order.
C21_EmissionIsOrdered ==
    \A r \in Runs :
        rs_pc[r] = "done" =>
            LET methods == rs_report[r].formatted.methods
                files == rs_report[r].formatted.files
            IN /\ \A i, j \in DOMAIN methods : i < j => methods[i].key < methods[j].key
               /\ \A i, j \in DOMAIN files : i < j => LexLess(files[i], files[j])

\* C22: two runs on the same archive with the same options emit the same
\* report, whatever the scheduling of the workers and the time of the run.
C22_ReportsAreIdentical ==
    (\A r \in Runs : rs_pc[r] = "done") => rs_report[1] = rs_report[2]

\* C23: the reported compression ratio is (1 - compressed / stored) x 100
\* with two decimals: 0.00% when the totals are equal, 50.00% when the
\* compressed total is half the stored total.
C23_RatioIsSavings ==
    \A r \in Runs :
        rs_pc[r] = "done" /\ rs_stats[r].total_size > 0 =>
            LET total == rs_stats[r].total_size
                savings == rs_stats[r].total_size - rs_stats[r].compressed_size
                expected == [digits |-> RoundDiv(savings * 10000, total), places |-> 2]
            IN /\ rs_report[r].text.ratio = expected
               /\ rs_report[r].formatted.ratio = expected
               /\ rs_report[r].results.ratio = expected
               /\ rs_report[r].summary = expected

\* C24: the error list the aggregator retains is bounded: however many
\* record_error calls the workers make, the number of retained records
\* stays within a fixed cap (here: a cap below the number of calls made).
\* The contexts of the ErrorHandler and the error channel of SharedState
\* stay within their capacities.
C24_ErrorListBounded ==
    /\ Len(stats_errors) < MaxErrorCalls
    /\ Len(eh_contexts) <= eh_max
    /\ ss_chan <= ErrorChannelCapacity

\* C25: the report is written atomically: at every step of the writer, and
\* after a failure at any step, the path OUTPUT is either untouched or holds
\* the complete new report, never partial content.
C25_OutputNeverPartial ==
    aw_pc # "idle" => aw_fs[aw_path] \in {aw_old, FileOf(NewReport)}

\* C26: pending work items are dispatched in FIFO order: an item enqueued
\* before another is handed to a worker before it.  In the Scheduler the
\* tasks moved to the running set are in the order of their ids and no
\* task still queued is older than a dispatched one; SafeQueue returns the
\* items in the order they were pushed.
C26_DispatchIsFifo ==
    /\ \A i, j \in DOMAIN sc_order : i < j => sc_order[i] < sc_order[j]
    /\ \A q \in sc_queue : \A i \in DOMAIN sc_order : sc_order[i] < q
    /\ \A i, j \in DOMAIN sq_popped : i < j => sq_popped[i] < sq_popped[j]
    /\ \A i \in DOMAIN sq_items : \A j \in DOMAIN sq_popped : sq_popped[j] < sq_items[i]

\* C27: a Large buffer is tracked in the issuing pool's map exactly while its
\* lease is alive: the ids in large_maps are the ids of the Large leases
\* held (so the map is empty once every Large lease was dropped), and
\* validate_memory succeeds on every Large lease held.
C27_LargeTrackedWhileLeased ==
    /\ large_maps = {leases[i].buf.id :
                        i \in {j \in 1..Len(leases) : leases[j].kind = "Large"}}
    /\ \A i \in 1..Len(leases) :
           leases[i].kind = "Large" => validate_memory(leases[i]) = "Ok"

\* C28: Processor::process_entries returns an error when the data of one of
\* its Store entries is not as long as the entry's declared size.
C28_StoreSizeMismatchIsAnError ==
    (/\ pr_state = "done"
     /\ \E i \in 1..Len(pr_entries) :
            LET e == Catalog[pr_entries[i]]
            IN e.method = 0 /\ Len(e.file_data) # e.uncompressed_size)
        => pr_ret # "Ok"

\* C29: the chunk processor's pool never has more than buffer_count buffers
\* outstanding, and the semaphore never has more than buffer_count available
\* permits.
C29_ChunkBuffersBounded ==
    ck_count > 0 =>
        /\ Cardinality(ChunkBuffersHeld) <= ck_count
        /\ ck_permits <= ck_count

\* the tasks execute accepted, and whether the pool is done with all of them:
\* each has returned and no worker is between its return and the counters
TpSubmitted == 1..(tp_next_id - 1)

TpAllFinished ==
    /\ \A id \in TpSubmitted : tp_results[id] # "pending"
    /\ \A w \in PoolThreads : tp_worker[w].pc \notin {"task", "global"}

RECURSIVE TpSum(_, _)
\* the sum of a counter over the entries of the DashMap metrics
TpSum(ws, field) ==
    IF ws = {} THEN 0
    ELSE LET w == CHOOSE x \in ws : TRUE
         IN tp_thread_metrics[w][field] + TpSum(ws \ {w}, field)

TpCountOf(result) == Cardinality({id \in TpSubmitted : tp_results[id] = result})

TpPresent == {w \in PoolThreads : tp_thread_metrics[w].present}

\* C30 as stated: once every submitted task has finished, the global counters
\* are the numbers of Ok and Err tasks and the per-thread counters sum to the
\* same totals.
C30_MetricsCountEachTaskOnce ==
    TpAllFinished =>
        /\ tp_metrics.completed = TpCountOf("Ok")
        /\ tp_metrics.failed = TpCountOf("Err")
        /\ TpSum(TpPresent, "completed") = tp_metrics.completed
        /\ TpSum(TpPresent, "failed") = tp_metrics.failed

\* C30, amended: the global counters are the numbers of Ok and Err tasks once
\* every submitted task has finished, and the per-thread counters sum to the
\* same totals as long as no worker thread has ended (a worker that ends
\* removes its entry from the per-thread metrics).
C30_MetricsCountWhileWorkersLive ==
    TpAllFinished =>
        /\ tp_metrics.completed = TpCountOf("Ok")
        /\ tp_metrics.failed = TpCountOf("Err")
        /\ (\A w \in PoolThreads : tp_worker[w].pc # "exited") =>
               /\ TpSum(TpPresent, "completed") = tp_metrics.completed
               /\ TpSum(TpPresent, "failed") = tp_metrics.failed

\* all tasks were submitted and have finished, some Ok and some Err, on more
\* than one worker, and every worker is alive
C30_Witness ==
    /\ tp_next_id = MaxTasks + 1
    /\ TpAllFinished
    /\ TpCountOf("Ok") >= 1 /\ TpCountOf("Err") >= 1
    /\ \A w \in PoolThreads :
           /\ tp_worker[w].pc \notin {"exiting", "exited"}
           /\ tp_thread_metrics[w].completed + tp_thread_metrics[w].failed >= 1

\* the entries of the DashMap states, as thread_states() collects them
TpStateEntries == {w \in PoolThreads : tp_states[w] # "absent"}

\* C31: when ThreadPool::new has returned (and nothing was asked of the pool
\* yet), thread_states() has exactly thread_count entries and no thread is
\* Processing.
C31_StatesCompleteAfterNew ==
    (tp_owner = "alive" /\ tp_running /\ tp_next_id = 1) =>
        /\ Cardinality(TpStateEntries) = ThreadCount
        /\ \A w \in PoolThreads : tp_states[w] # "Processing"

\* C32: the running set of the Scheduler never holds more than
\* max_concurrent tasks, and a task moves from the queue to the running set
\* only into a free place: when the running set was full, a running task
\* has completed in the same step.
C32_RunningWithinMaxConcurrent ==
    [][/\ Cardinality(sc_running') <= sc_max'
       /\ (sc_running' \ sc_running # {} /\ Cardinality(sc_running) = sc_max)
              => sc_running \ sc_running' # {}]_vars

\* max_concurrent tasks are running, another waits in the queue, and run is
\* in progress
C32_Witness ==
    /\ sc_pc = "select"
    /\ sc_max >= 1
    /\ Cardinality(sc_running) = sc_max
    /\ sc_queue # {}
    /\ Len(sc_order) > sc_max

\* C33: Scheduler::run eventually returns (its loop reaches `else => break`)
\* once the scheduled tasks have completed, and the scheduler is idle then:
\* nothing queued, nothing running.
C33_RunReturnsIdle ==
    (sc_pc = "select") ~> (SelectElse /\ sc_queue = {} /\ sc_running = {})

\* C34: the tasks scheduled before run() are executed by priority: once run
\* is in progress, no task was started before a task that is greater by the
\* order of ScheduledTask (higher priority, then earlier deadline, then
\* earlier creation time); of Low, High, Normal the High task is the first.
C34_ExecutedByPriority ==
    sc_pc = "select" =>
        \A i, j \in 1..Len(sc_order) :
            i < j => TaskCmp(sc_tasks[sc_order[i]], sc_tasks[sc_order[j]]) # "Less"

\* C35: SharedState created with max_concurrent = N lets at most N permits
\* be held at once: the acquire_permit calls that have returned and were not
\* followed by a release_permit never number more than N.
C35_PermitsHeldWithinMax == sp_max > 0 => sp_acquired - sp_released <= sp_max

\* C36: WorkerPool::new never builds a pool of more than MAX_THREADS worker
\* threads, whatever the configuration asks for.
C36_ThreadsWithinMax == wn_threads <= MAX_THREADS

\* the bytes of the buffers leased from the byte-budgeted pool: acquired and
\* not yet returned
LeasedBytes == SumOver([a \in AlignedSizes |-> a * gb_held[a]], AlignedSizes)

\* C37: the budget is charged for outstanding bytes only: get_buffer(n)
\* fails only when the bytes leased plus the rounded size of n exceed
\* max_size (stated for a call that no other call overlaps); buffers
\* returned to the pool do not make a request fail.
C37_ChargedForOutstandingOnly ==
    [][\A t \in Threads :
          (/\ GetBufferEnd(t)
           /\ gb_result'[t] = "err_memory"
           /\ \A u \in Threads \ {t} : gb_pc[u] = "idle")
              => LeasedBytes + gb_local[t].aligned_size > PoolMaxSize]_vars


\* C38: iterating ZipReader::entries() terminates; in particular, once
\* next() has yielded an error item, calling next() again on the same
\* iterator does not yield that same error again
C38_ErrorNotYieldedAgain ==
    (mm_pc = "done" /\ mm_ret = "Err_Format") =>
        IteratorNext(mm_map, mm_offset).res # "Err_Format"


\* C39: in analyze the progress update of every chunk is well defined:
\* computing estimated_remaining_secs never divides by zero, the first
\* chunk, at offset 0, included
C39_EstimateNeverDividesByZero ==
    /\ an_ret # "Panic_DivideByZero"
    /\ (an_pc = "progress" =>
            \A elapsed_secs \in 0..MaxElapsedSecs :
                estimated_remaining_secs(an_file_size, an_offset, elapsed_secs) # None)


\* C40: every task for which execute returned Ok is executed, exactly once,
\* by some worker, a concurrent or later shutdown() notwithstanding: once
\* every worker thread has ended, no accepted task is left unexecuted, and
\* no task is received twice
C40_AcceptedTaskIsExecuted ==
    /\ \A i, j \in 1..Len(tp_started) : tp_started[i] = tp_started[j] => i = j
    /\ (\A w \in PoolThreads : tp_worker[w].pc = "exited") =>
           \A id \in TpSubmitted : tp_results[id] # "pending"

====
